---- MODULE Spec2Model ----
(***************************************************************************)
(* Control plane of the multi-agent task pipeline: Task Shredder, Task     *)
(* Scheduler, Agent Pool, Context Pool, Execution Engine and the simple    *)
(* TaskRunner, modelled from src/src-tauri/src/services.                   *)
(*                                                                         *)
(* Abstractions.  Task ids are uuids in the code; here a task id is the    *)
(* position of the task in the list the shredder returned.  A queue id     *)
(* "project:task" is the pair of its two parts; a malformed queue id is a  *)
(* tuple of another length.  Timestamps, payloads and audit counters that  *)
(* no branch of the code reads are left out.                               *)
(***************************************************************************)
EXTENDS Integers, Sequences, FiniteSets, TLC

\* ------------------------------------------------------------------------
\* Bounds of the model
\* ------------------------------------------------------------------------
MaxOps == 2
MaxRunOps == 5
MaxEngineOps == 3
MaxGraphOps == 2
MaxDriveOps == 2

\* calls of the engine in the specification of cancel_project
MaxCancelOps == 3

\* calls of the engine in the specification of the agents' health
MaxHealthOps == 2

\* entries in the pool, and the largest max_depth, in the specification of
\* get_context_chain
MaxChainEntries == 3

MaxChainDepth == 4

\* entries in the pool, and the last reading of the clock (in ticks), in
\* the specification of cleanup_expired
MaxPoolEntries == 2

MaxNow == 4
MaxShredOps == 1
MaxExecOps == 2
MaxAttempts == 5
MaxLimiterOps == 51
MaxWindows == 1
MaxLockOps == 2
MaxPassOps == 2
MaxApproveOps == 3
MaxIndexIds == 2
MaxIndexSize == 3
MaxUnevenOps == 2
MaxBusOps == 5
MaxBusEvents == 2

\* project ids, in the order in which they are first used
ProjOrder == <<"p1", "p2", "p3", "p4", "p5">>

ProjIds == {ProjOrder[i] : i \in DOMAIN ProjOrder}

\* the projects the calls of the open environment name
GenProjIds == {"p1", "p2"}

\* ------------------------------------------------------------------------
\* Program constants
\* ------------------------------------------------------------------------
MaxConcurrentTasks == 4
MaxRetries == 3

NoAgent == "none"
Absent == "Absent"

Capabilities == {"Text", "Code", "Image", "Sound", "Video"}

\* ------------------------------------------------------------------------
\* Task Shredder
\* ------------------------------------------------------------------------
\* The Task literal of shred_coding_project: status, dependencies,
\* input_chain and approval_required are written out per task.
MkTask(id, task_type, capability, status, deps, chain, approval) ==
    [id |-> id, task_type |-> task_type, capability |-> capability,
     status |-> status, dependencies |-> deps, input_chain |-> chain,
     approval_required |-> approval, retry_count |-> 0, error |-> FALSE,
     started_at |-> FALSE]

\* create_task with every task ready from the start
create_task_always_queued(id, task_type, capability, deps, priority) ==
    MkTask(id, task_type, capability, "Queued", deps, deps, priority = 1)

\* create_task: Queued iff no dependencies, input_chain = dependencies,
\* approval_required iff priority = Some(1).
create_task(id, task_type, capability, deps, priority) ==
    MkTask(id, task_type, capability,
           IF deps = <<>> THEN "Queued" ELSE "Blocked",
           deps, deps, priority = 1)

\* the coding pipeline with a review that waits for the tests only
shred_coding_project_review_after_tests ==
    << MkTask(1, "architecture", "Text", "Queued", <<>>, <<>>, TRUE),
       MkTask(2, "module_planning", "Text", "Blocked", <<1>>, <<1>>, FALSE),
       MkTask(3, "core_implementation", "Code", "Blocked", <<2>>, <<1, 2>>, TRUE),
       MkTask(4, "unit_testing", "Code", "Blocked", <<3>>, <<3>>, FALSE),
       MkTask(5, "documentation", "Text", "Blocked", <<3>>, <<1, 2, 3>>, FALSE),
       MkTask(6, "review", "Text", "Blocked", <<4>>, <<>>, TRUE) >>

shred_coding_project ==
    << MkTask(1, "architecture", "Text", "Queued", <<>>, <<>>, TRUE),
       MkTask(2, "module_planning", "Text", "Blocked", <<1>>, <<1>>, FALSE),
       MkTask(3, "core_implementation", "Code", "Blocked", <<2>>, <<1, 2>>, TRUE),
       MkTask(4, "unit_testing", "Code", "Blocked", <<3>>, <<3>>, FALSE),
       MkTask(5, "documentation", "Text", "Blocked", <<3>>, <<1, 2, 3>>, FALSE),
       MkTask(6, "review", "Text", "Blocked", <<4, 5>>, <<>>, TRUE) >>

shred_data_analysis ==
    << create_task(1, "data_understanding", "Text", <<>>, 1),
       create_task(2, "data_preparation", "Code", <<1>>, 2),
       create_task(3, "analysis", "Code", <<2>>, 3),
       create_task(4, "visualization", "Code", <<3>>, 4),
       create_task(5, "report", "Text", <<3, 4>>, 5) >>

shred_research_project ==
    << create_task(1, "literature_review", "Text", <<>>, 1),
       create_task(2, "hypothesis", "Text", <<1>>, 2),
       create_task(3, "methodology", "Text", <<2>>, 3),
       create_task(4, "analysis", "Text", <<3>>, 4),
       create_task(5, "paper", "Text", <<4>>, 5) >>

shred_writing_project ==
    << create_task(1, "outline", "Text", <<>>, 1),
       create_task(2, "draft", "Text", <<1>>, 2),
       create_task(3, "edit", "Text", <<2>>, 3),
       create_task(4, "polish", "Text", <<3>>, 4) >>

shred_design_project ==
    << create_task(1, "concept", "Text", <<>>, 1),
       create_task(2, "wireframes", "Image", <<1>>, 2),
       create_task(3, "visual_design", "Image", <<2>>, 3),
       create_task(4, "design_system", "Text", <<3>>, 4) >>

shred_marketing_project ==
    << create_task(1, "market_research", "Text", <<>>, 1),
       create_task(2, "strategy", "Text", <<1>>, 2),
       create_task(3, "content", "Text", <<2>>, 3),
       create_task(4, "campaign", "Text", <<3>>, 4) >>

shred_custom_project ==
    << create_task(1, "analysis", "Text", <<>>, 1),
       create_task(2, "implementation", "Text", <<1>>, 2),
       create_task(3, "review", "Text", <<2>>, 3) >>

shred_project(ptype) ==
    CASE ptype = "CodingProject" -> shred_coding_project
      [] ptype = "DataAnalysis"  -> shred_data_analysis
      [] ptype = "Research"      -> shred_research_project
      [] ptype = "Writing"       -> shred_writing_project
      [] ptype = "Design"        -> shred_design_project
      [] ptype = "Marketing"     -> shred_marketing_project
      [] OTHER                   -> shred_custom_project


\* ------------------------------------------------------------------------
\* Agents (state.agents is loaded from agents.json by AppState::new)
\* ------------------------------------------------------------------------
MkAgent(name, caps, priority, local, has_key, max, succ) ==
    [name |-> name, capabilities |-> caps, enabled |-> TRUE,
     priority |-> priority, local |-> local, has_key |-> has_key,
     max_concurrent_tasks |-> max,
     health |-> [status |-> "Healthy", success_count |-> succ,
                 failure_count |-> 0]]

\* The agent registries a run may start with.  Each exercises one of the
\* selection paths of find_suitable_agent.
\* two free local agents of priority 0: random choice
LocalAgents ==
    << MkAgent("L1", {"Text"}, 0, TRUE, FALSE, 1, 0),
       MkAgent("L2", {"Text"}, 0, TRUE, FALSE, 1, 0) >>

\* free agents with priorities: round robin
PriorityAgents ==
    << MkAgent("F1", {"Text"}, 1, TRUE, FALSE, 1, 0),
       MkAgent("F2", {"Text", "Image"}, 2, TRUE, FALSE, 2, 0) >>

\* remote agents holding a credential: least-load fallback
RemoteAgents ==
    << MkAgent("R1", {"Text"}, 0, FALSE, TRUE, 3, 5),
       MkAgent("R2", {"Text", "Code"}, 1, FALSE, TRUE, 3, 0) >>

\* a remote agent and a free local one
MixedAgents ==
    << MkAgent("R1", {"Text", "Code"}, 1, FALSE, TRUE, 2, 5),
       MkAgent("L1", {"Text"}, 0, TRUE, FALSE, 1, 0) >>

\* remote agents of unequal capacity: the least-load fallback between a
\* small agent and a large one
UnevenAgents ==
    << MkAgent("R1", {"Text"}, 0, FALSE, TRUE, 1, 0),
       MkAgent("R2", {"Text"}, 0, FALSE, TRUE, 3, 0) >>

AgentConfigs == {LocalAgents, PriorityAgents, RemoteAgents, MixedAgents}

\* the success_count the remote agent may have in agents.json: with one
\* more failure the error rate is 1, exactly 0.5, or exactly 0.1
HealthSuccCounts == {0, 1, 9}

\* a remote agent with succ successful calls behind it, and a local one
HealthAgents(succ) ==
    << MkAgent("R1", {"Text", "Code"}, 1, FALSE, TRUE, 2, succ),
       MkAgent("L1", {"Text"}, 0, TRUE, FALSE, 1, 0) >>

\* ------------------------------------------------------------------------
\* State
\* ------------------------------------------------------------------------
VARIABLES
    projects,       \* state.projects: project id -> status, or Absent
    tasks,          \* state.tasks: project id -> list of tasks (<<>>: no entry)
    agents,         \* state.agents
    connections,    \* AgentPool.agent_connections: names with a connection
    queue,          \* TaskScheduler.queue
    active_tasks,   \* TaskScheduler.active_tasks: queue id -> agent name
    rx,             \* the scheduler's command channel
    is_running,     \* local of TaskScheduler::run
    free_rotation,  \* TaskScheduler.free_rotation: capability -> cursor
    sched_pc,       \* where the scheduler loop is: idle, pq, deadlock
    stuck_locks,    \* locks of AppState held by a thread that waits forever
    events,         \* the engine's event channel
    context,        \* the ContextPool: entries and its two indexes
    now,            \* Utc::now(), in ticks
    chain,          \* what the last call of get_context_chain did
    executor,       \* SimpleExecutor: rate limiters and the execute_task call
    suspended,      \* engine calls waiting at an await, with the locks they hold
    waited,         \* history: tasks that have been WaitingApproval
    ops             \* number of API calls the environment may still make

vars == <<projects, tasks, agents, connections, queue, active_tasks, rx,
          is_running, free_rotation, sched_pc, stuck_locks, events, context,
          now, chain, executor, suspended, waited, ops>>

\* format!("{}:{}", project_id, task_id)
QueueId(p, t) == <<p, t>>

EmptyMap == [x \in {} |-> NoAgent]

Insert(f, k, v) == [x \in (DOMAIN f) \cup {k} |-> IF x = k THEN v ELSE f[x]]

Remove(f, k) == [x \in (DOMAIN f) \ {k} |-> f[x]]

HasProjectTasks(ts, p) == p \in ProjIds /\ ts[p] # <<>>

\* project_tasks.iter().find(|t| t.id == task_id): its position, 0 if none
FindTask(ts, p, t) ==
    IF HasProjectTasks(ts, p) /\ \E i \in DOMAIN ts[p] : ts[p][i].id = t
    THEN CHOOSE i \in DOMAIN ts[p] :
            /\ ts[p][i].id = t
            /\ \A j \in DOMAIN ts[p] : ts[p][j].id = t => i <= j
    ELSE 0

SetStatus(ts, p, t, st) ==
    IF FindTask(ts, p, t) = 0 THEN ts
    ELSE [ts EXCEPT ![p][FindTask(ts, p, t)].status = st]

WaitedAfter(ts) ==
    waited \cup UNION {{QueueId(p, ts[p][i].id) :
                          i \in {i \in DOMAIN ts[p] :
                                    ts[p][i].status = "WaitingApproval"}} :
                      p \in ProjIds}

AllCompleted(ts, p) == \A i \in DOMAIN ts[p] : ts[p][i].status = "Completed"

\* ------------------------------------------------------------------------
\* Context Pool
\* ------------------------------------------------------------------------
\* format!("ctx-{}", Uuid::new_v4()): the n-th identifier of a context
\* entry.  Context ids are the negative numbers; task ids ("task-<uuid>")
\* are positive and the empty task id of a clarification is 0, so the two
\* kinds never coincide.
CtxId(n) == 0 - n

\* Option<u64>: None is <<>>, Some(n) is <<n>>
None == <<>>

Some(n) == <<n>>

\* a ContextEntry (content_type, content, metadata and updated_at are
\* never read by the pool)
MkEntry(id, p, t, refs, ttl, created) ==
    [id |-> id, project_id |-> p, task_id |-> t, references |-> refs,
     ttl_seconds |-> ttl, created_at |-> created]

\* ContextPool::new
ContextPool_new ==
    [entries |-> << >>, project_contexts |-> << >>, task_contexts |-> << >>]

\* index.entry(key).or_default().push(id)
Push(index, key, id) ==
    Insert(index, key,
           IF key \in DOMAIN index THEN Append(index[key], id) ELSE <<id>>)

\* if let Some(ids) = index.get_mut(key) { ids.retain(|x| x != id) }
Retain(index, key, id) ==
    IF key \in DOMAIN index
    THEN [index EXCEPT ![key] = SelectSeq(@, LAMBDA x : x # id)]
    ELSE index

add_context(ctx, entry) ==
    [entries |-> Insert(ctx.entries, entry.id, entry),
     project_contexts |-> Push(ctx.project_contexts, entry.project_id, entry.id),
     task_contexts |-> Push(ctx.task_contexts, entry.task_id, entry.id)]

\* get_project_context and get_task_context: the stored entries of the ids
\* that the index lists under the key, in the order of the list
\* (ids.iter().filter_map(|id| entries.get(id).cloned()).collect())
Lookup(entries, index, key) ==
    IF key \in DOMAIN index
    THEN LET ids == SelectSeq(index[key], LAMBDA id : id \in DOMAIN entries)
         IN [i \in 1..Len(ids) |-> entries[ids[i]]]
    ELSE <<>>

get_project_context(ctx, p) == Lookup(ctx.entries, ctx.project_contexts, p)

get_task_context(ctx, t) == Lookup(ctx.entries, ctx.task_contexts, t)

\* Err("Context entry not found") leaves the pool as it is
remove_context(ctx, id) ==
    IF id \in DOMAIN ctx.entries
    THEN LET entry == ctx.entries[id] IN
         [entries |-> Remove(ctx.entries, id),
          project_contexts |-> Retain(ctx.project_contexts, entry.project_id, id),
          task_contexts |-> Retain(ctx.task_contexts, entry.task_id, id)]
    ELSE ctx

\* the loop of clear_project_context over the ids the project index held
RECURSIVE ClearIds(_, _)
ClearIds(ctx, ids) ==
    IF ids = <<>> THEN ctx
    ELSE LET id == Head(ids) IN
         ClearIds(IF id \in DOMAIN ctx.entries
                  THEN [ctx EXCEPT
                          !.entries = Remove(@, id),
                          !.task_contexts =
                              Retain(@, ctx.entries[id].task_id, id)]
                  ELSE ctx,
                  Tail(ids))

clear_project_context(ctx, p) ==
    IF p \in DOMAIN ctx.project_contexts
    THEN ClearIds([ctx EXCEPT !.project_contexts = Remove(@, p)],
                  ctx.project_contexts[p])
    ELSE ctx

\* The clock counts ticks of half a second (a DateTime<Utc> counts
\* nanoseconds).
TicksPerSecond == 2

\* Duration::num_seconds: the whole seconds of a duration, rounded towards
\* zero
num_seconds(d) ==
    IF d >= 0 THEN d \div TicksPerSecond ELSE 0 - ((0 - d) \div TicksPerSecond)

\* as u64: a negative number wraps to a number above every ttl
as_u64(x) == IF x >= 0 THEN x ELSE 2147483647 + x

\* a mutation of expired_ids: an age equal to the ttl counts as expired
expired_ids_at_ttl(ctx, t_now) ==
    {id \in DOMAIN ctx.entries :
        /\ ctx.entries[id].ttl_seconds # None
        /\ as_u64(num_seconds(t_now - ctx.entries[id].created_at))
              >= ctx.entries[id].ttl_seconds[1]}

expired_ids(ctx, t_now) ==
    {id \in DOMAIN ctx.entries :
        /\ ctx.entries[id].ttl_seconds # None
        /\ as_u64(num_seconds(t_now - ctx.entries[id].created_at))
              > ctx.entries[id].ttl_seconds[1]}

\* for id in expired_ids { let _ = self.remove_context(&id); }  The ids are
\* distinct keys of the entry map, so the order that the map iterates in
\* does not change the outcome.
RECURSIVE RemoveAll(_, _)
RemoveAll(ctx, ids) ==
    IF ids = {} THEN ctx
    ELSE LET id == CHOOSE x \in ids : TRUE IN
         RemoveAll(remove_context(ctx, id), ids \ {id})

cleanup_expired(ctx, t_now) == RemoveAll(ctx, expired_ids(ctx, t_now))

\* The locals of get_context_chain: result and visited, and, to tell what
\* the recursion did, the ids that passed the guard in the order they did
\* (expanded) and the depth at which each entry of result was pushed.
ChainStart ==
    [result |-> <<>>, visited |-> {}, expanded |-> <<>>, depths |-> <<>>]

\* no call of get_context_chain was made since the pool last changed
NoChain == [task_id |-> 0, max_depth |-> 0, did |-> ChainStart]

RECURSIVE collect_context_recursive(_, _, _, _, _)
RECURSIVE CollectEach(_, _, _, _, _)
\* a mutation of collect_context_recursive: visited is written but not read
collect_context_recursive_unguarded(entries, id, st, depth, max_depth) ==
    IF depth >= max_depth THEN st
    ELSE LET st1 == [st EXCEPT !.visited = @ \cup {id},
                               !.expanded = Append(@, id)]
         IN IF id \in DOMAIN entries
            THEN LET st2 == CollectEach(entries, entries[id].references, st1,
                                        depth + 1, max_depth)
                 IN [st2 EXCEPT !.result = Append(@, entries[id]),
                                !.depths = Append(@, depth)]
            ELSE st1

collect_context_recursive(entries, id, st, depth, max_depth) ==
    IF depth >= max_depth \/ id \in st.visited THEN st
    ELSE LET st1 == [st EXCEPT !.visited = @ \cup {id},
                               !.expanded = Append(@, id)]
         IN IF id \in DOMAIN entries
            THEN LET st2 == CollectEach(entries, entries[id].references, st1,
                                        depth + 1, max_depth)
                 IN [st2 EXCEPT !.result = Append(@, entries[id]),
                                !.depths = Append(@, depth)]
            ELSE st1

\* for id in ids { self.collect_context_recursive(entries, id, ...) }
CollectEach(entries, ids, st, depth, max_depth) ==
    IF ids = <<>> THEN st
    ELSE CollectEach(entries, Tail(ids),
                     collect_context_recursive(entries, Head(ids), st, depth,
                                               max_depth),
                     depth, max_depth)

get_context_chain(ctx, task_id, max_depth) ==
    IF task_id \in DOMAIN ctx.task_contexts
    THEN CollectEach(ctx.entries, ctx.task_contexts[task_id], ChainStart, 0,
                     max_depth)
    ELSE ChainStart

\* Uuid::new_v4(): an id that no stored entry has
FreshCtxId(ctx) ==
    CtxId(CHOOSE n \in 1..(Cardinality(DOMAIN ctx.entries) + 1) :
            /\ CtxId(n) \notin DOMAIN ctx.entries
            /\ \A m \in 1..(n - 1) : CtxId(m) \in DOMAIN ctx.entries)

\* ------------------------------------------------------------------------
\* SimpleExecutor (services/simple_executor_enhanced.rs)
\* ------------------------------------------------------------------------
Providers == {"openai", "anthropic", "ollama"}

\* SimpleExecutor::new: RateLimiter::new(60), (50) and (100)
requests_per_minute(provider) ==
    CASE provider = "openai"    -> 60
      [] provider = "anthropic" -> 50
      [] OTHER                  -> 100

\* RateLimiter::new at time t_now.  admitted counts the calls of acquire
\* that returned Ok since the permits were last refilled (since
\* construction before the first refill); the program does not store it.
RateLimiter_new(rpm, t_now) ==
    [available_permits |-> rpm, requests_per_minute |-> rpm,
     last_reset |-> t_now, admitted |-> 0]

WindowSeconds == 60

\* the first half of acquire: after 60 whole seconds the permits are
\* topped up to requests_per_minute
refill(lim, t_now) ==
    IF num_seconds(t_now - lim.last_reset) >= WindowSeconds
    THEN [lim EXCEPT !.last_reset = t_now,
                     !.available_permits =
                         IF @ < lim.requests_per_minute
                         THEN @ + (lim.requests_per_minute - @) ELSE @,
                     !.admitted = 0]
    ELSE lim

\* semaphore.acquire() returns at once iff a permit is available
can_acquire(lim, t_now) == refill(lim, t_now).available_permits > 0

\* let _permit = self.semaphore.acquire().await?
semaphore_acquire(lim) == [lim EXCEPT !.available_permits = @ - 1]

\* _permit goes out of scope when acquire returns: SemaphorePermit::drop
\* gives the permit back
drop_permit(lim) == [lim EXCEPT !.available_permits = @ + 1]

\* RateLimiter::acquire, for a call that returns.  last_reset is
\* write-locked for the whole call, so calls on one limiter do not overlap.
acquire(lim, t_now) ==
    [drop_permit(semaphore_acquire(refill(lim, t_now)))
        EXCEPT !.admitted = @ + 1]

\* call_text_api: the provider is chosen by the prefix of the model name
TextProvider(model) ==
    CASE model \in {"gpt", "o1"}        -> "openai"
      [] model = "claude"               -> "anthropic"
      [] model \in {"llama", "mistral"} -> "ollama"
      [] OTHER                          -> "openai"

\* the rate limiter an attempt passes, "none" for a capability that fails
\* before any call (video, unknown)
LimiterOf(task) ==
    CASE task.capability \in {"text", "code"}   -> TextProvider(task.model)
      [] task.capability \in {"image", "sound"} -> "openai"
      [] OTHER                                  -> "none"

\* output["type"] of a successful provider call
OutputType(capability) ==
    CASE capability \in {"text", "code"} -> "text"
      [] capability = "image"            -> "image"
      [] OTHER                           -> "audio"

\* TaskExecution: tool and full_context stand for is_some()
MkExecution(capability, model, tool, full_context, retry_count) ==
    [capability |-> capability, model |-> model, tool |-> tool,
     full_context |-> full_context, retry_count |-> retry_count]

\* what execute_with_context sends: the full context, and a preamble that
\* names the retry attempt, iff use_full_context && full_context.is_some()
execute_with_context(task, use_full_context) ==
    IF use_full_context /\ task.full_context
    THEN [full_context |-> TRUE, retry_attempt |-> task.retry_count + 1]
    ELSE [full_context |-> FALSE, retry_attempt |-> 0]

\* one call of execute_with_context: what it sent and whether the provider
\* answered with a result
Attempt(task, use_full_context, ok) ==
    [sent |-> execute_with_context(task, use_full_context), ok |-> ok]

\* Ok(ExecutionResult) of a provider call that succeeded
ProviderResult(task) ==
    [kind |-> "Ok", success |-> TRUE, output |-> OutputType(task.capability),
     tool_output |-> FALSE, needs_user_input |-> FALSE, retry_strategy |-> "none"]

\* the result execute_task builds after the retries are used up
ExhaustedResult ==
    [kind |-> "Ok", success |-> FALSE, output |-> "none",
     tool_output |-> FALSE, needs_user_input |-> TRUE,
     retry_strategy |-> "exhausted"]

ErrResult(msg) ==
    [kind |-> "Err", success |-> FALSE, output |-> msg,
     tool_output |-> FALSE, needs_user_input |-> FALSE, retry_strategy |-> "none"]

NoResult == ErrResult("pending")

\* apply_tool on a successful provider result; tool_exit_ok is the exit
\* status of the tool's process
apply_tool(result, tool_exit_ok) ==
    IF ~result.success \/ result.output = "none" THEN result
    ELSE IF tool_exit_ok
         THEN [result EXCEPT !.output = "processed", !.tool_output = TRUE]
         ELSE IF result.output = "text" THEN ErrResult("tool failed")
              ELSE result

\* execute_task without the retry with the full context
AfterFirstFailure_without_full_retry(task) ==
    IF task.retry_count >= 1 THEN "exhausted" ELSE "backoff"

\* where execute_task goes after its first attempt has failed
AfterFirstFailure(task) ==
    IF task.full_context /\ task.retry_count = 0 THEN "full"
    ELSE IF task.retry_count >= 1 THEN "exhausted"
    ELSE "backoff"

NoExecution == MkExecution("text", "gpt", FALSE, FALSE, 0)

\* no call of execute_task yet
NoCall == [pc |-> "idle", task |-> NoExecution, given |-> NoExecution,
           attempts |-> <<>>, result |-> NoResult]

SimpleExecutor_new ==
    [rate_limiters |-> [pr \in Providers |->
                           RateLimiter_new(requests_per_minute(pr), 0)],
     call |-> NoCall]

\* The state after ExecutionEngine::new and initialize, with the agent
\* registry ags and a budget of n calls.
Boot(ags, n) ==
    /\ projects = [p \in ProjIds |-> Absent]
    /\ tasks = [p \in ProjIds |-> <<>>]
    /\ agents = ags
    /\ connections = {agents[i].name : i \in DOMAIN agents}
    /\ queue = <<>>
    /\ active_tasks = EmptyMap
    /\ rx = <<>>
    /\ is_running = FALSE
    /\ free_rotation = [c \in Capabilities |-> 0]
    /\ sched_pc = "idle"
    /\ stuck_locks = {}
    /\ events = <<>>
    /\ context = ContextPool_new
    /\ now = 0
    /\ chain = NoChain
    /\ executor = SimpleExecutor_new
    /\ suspended = {}
    /\ waited = {}
    /\ ops = n

Init == Boot(MixedAgents, MaxOps)

InitRun == \E ags \in AgentConfigs : Boot(ags, MaxRunOps)

\* ------------------------------------------------------------------------
\* Task Scheduler
\* ------------------------------------------------------------------------
are_dependencies_met(ts, p, t) ==
    LET i == FindTask(ts, p, t) IN
    IF i = 0 THEN FALSE
    ELSE \A k \in DOMAIN ts[p][i].dependencies :
            LET d == FindTask(ts, p, ts[p][i].dependencies[k]) IN
            d # 0 => ts[p][d].status = "Completed"

\* a mutation of get_agent_load: the filter on the agent's name is missing
get_agent_load_unfiltered(act, name) == Cardinality(DOMAIN act)

get_agent_load(act, name) ==
    Cardinality({q \in DOMAIN act : act[q] = name})

IsFree(a) == a.local \/ ~a.has_key

\* the subsequence of s whose elements satisfy Keep
RECURSIVE Filter(_, _)
Filter(s, keep) ==
    IF s = <<>> THEN <<>>
    ELSE IF Head(s).name \in keep THEN <<Head(s)>> \o Filter(Tail(s), keep)
    ELSE Filter(Tail(s), keep)

\* sort_by_key(|a| -a.priority): stable, highest priority first
RECURSIVE SortByPriorityDesc(_)
SortByPriorityDesc(s) ==
    IF s = <<>> THEN <<>>
    ELSE LET i == CHOOSE i \in DOMAIN s :
                    /\ \A j \in DOMAIN s : s[j].priority <= s[i].priority
                    /\ \A j \in DOMAIN s :
                          s[j].priority = s[i].priority => i <= j
             rest == [k \in 1..(Len(s) - 1) |-> IF k < i THEN s[k] ELSE s[k + 1]]
         IN <<s[i]>> \o SortByPriorityDesc(rest)

\* the least-load fallback loop over suitable_agents
RECURSIVE BestAgent(_, _, _)
BestAgent(s, best, act) ==
    IF s = <<>> THEN best
    ELSE LET a == Head(s)
             load == get_agent_load(act, a.name)
             min_load == get_agent_load(act, best.name)
         IN IF load < min_load \/ (load = min_load /\ a.priority > best.priority)
            THEN BestAgent(Tail(s), a, act)
            ELSE BestAgent(Tail(s), best, act)

\* a mutation of Fallback: the least loaded agent is returned without the
\* comparison of its load with max_concurrent_tasks
FallbackNoCapacity(suitable, act, rot) ==
    {[agent |-> BestAgent(Tail(suitable), Head(suitable), act).name,
      rotation |-> rot]}

Fallback(suitable, act, rot) ==
    LET best == BestAgent(Tail(suitable), Head(suitable), act) IN
    IF get_agent_load(act, best.name) < best.max_concurrent_tasks
    THEN {[agent |-> best.name, rotation |-> rot]}
    ELSE {[agent |-> NoAgent, rotation |-> rot]}

\* The outcomes find_suitable_agent can have: the agent chosen (or NoAgent)
\* and the rotation cursors afterwards.  The shuffle makes every free agent
\* with spare capacity a possible first pick.
find_suitable_agent(ts, ags, act, rot, p, t) ==
    LET i == FindTask(ts, p, t) IN
    IF i = 0 THEN {[agent |-> NoAgent, rotation |-> rot]}
    ELSE
    LET cap == ts[p][i].capability
        suitable == Filter(ags, {ags[k].name : k \in
                        {k \in DOMAIN ags : ags[k].enabled
                                            /\ cap \in ags[k].capabilities}})
        free == Filter(suitable, {suitable[k].name : k \in
                        {k \in DOMAIN suitable : IsFree(suitable[k])}})
        HasRoom(a) == get_agent_load(act, a.name) < a.max_concurrent_tasks
    IN
    IF suitable = <<>> THEN {[agent |-> NoAgent, rotation |-> rot]}
    ELSE IF free # <<>> /\ \A k \in DOMAIN free : free[k].priority = 0
    THEN IF \E k \in DOMAIN free : HasRoom(free[k])
         THEN {[agent |-> free[k].name, rotation |-> rot] :
                  k \in {k \in DOMAIN free : HasRoom(free[k])}}
         ELSE Fallback(suitable, act, rot)
    ELSE IF free # <<>>
    THEN LET sorted == SortByPriorityDesc(free)
             n == Len(sorted)
             start == rot[cap]
             At(off) == ((start + off) % n) + 1
         IN IF \E off \in 0..(n - 1) : HasRoom(sorted[At(off)])
            THEN LET off == CHOOSE off \in 0..(n - 1) :
                               /\ HasRoom(sorted[At(off)])
                               /\ \A o2 \in 0..(n - 1) :
                                     HasRoom(sorted[At(o2)]) => off <= o2
                 IN {[agent |-> sorted[At(off)].name,
                      rotation |-> [rot EXCEPT ![cap] = At(off) % n]]}
            ELSE Fallback(suitable, act, rot)
    ELSE Fallback(suitable, act, rot)


\* check_for_unblocked_tasks: every Blocked task of the project whose
\* dependencies are met is pushed to the queue, in list order
RECURSIVE PushUnblocked(_, _, _, _)
PushUnblocked(ts, q, p, i) ==
    IF ~HasProjectTasks(ts, p) \/ i > Len(ts[p]) THEN q
    ELSE IF ts[p][i].status = "Blocked"
            /\ are_dependencies_met(ts, p, ts[p][i].id)
         THEN PushUnblocked(ts, Append(q, QueueId(p, ts[p][i].id)), p, i + 1)
         ELSE PushUnblocked(ts, q, p, i + 1)

check_for_unblocked_tasks(ts, q, p) == PushUnblocked(ts, q, p, 1)

\* a mutation of AfterCommand: the pass does not depend on is_running
AfterCommand_while_paused(running, act) ==
    IF Cardinality(DOMAIN act) < MaxConcurrentTasks THEN "pq" ELSE "idle"

\* process_queue returns at once when the ceiling is reached
AfterCommand(running, act) ==
    IF running /\ Cardinality(DOMAIN act) < MaxConcurrentTasks
    THEN "pq" ELSE "idle"

Receives(kinds) ==
    /\ sched_pc = "idle"
    /\ rx # <<>>
    /\ Head(rx).cmd \in kinds
    /\ rx' = Tail(rx)

RecvStart ==
    /\ Receives({"Start", "Resume"})
    /\ is_running' = TRUE
    /\ sched_pc' = AfterCommand(TRUE, active_tasks)
    /\ UNCHANGED <<projects, tasks, agents, connections, queue, active_tasks,
                   free_rotation, stuck_locks, events, context, now, chain, executor, suspended, waited, ops>>

RecvPause ==
    /\ Receives({"Pause", "Stop"})
    /\ is_running' = FALSE
    /\ sched_pc' = "idle"
    /\ UNCHANGED <<projects, tasks, agents, connections, queue, active_tasks,
                   free_rotation, stuck_locks, events, context, now, chain, executor, suspended, waited, ops>>

\* enqueue_task
RecvEnqueueTask ==
    /\ Receives({"EnqueueTask"})
    /\ LET c == Head(rx) IN
       /\ tasks' = SetStatus(tasks, c.p, c.t, "Queued")
       /\ queue' = Append(queue, QueueId(c.p, c.t))
    /\ waited' = WaitedAfter(tasks')
    /\ sched_pc' = AfterCommand(is_running, active_tasks)
    /\ UNCHANGED <<projects, agents, connections, active_tasks, is_running,
                   free_rotation, stuck_locks, events, context, now, chain, executor, suspended, ops>>

\* handle_task_completed.  The write guard on state.tasks is dropped only
\* in the all_completed branch; on every other path it is still held when
\* check_for_unblocked_tasks asks for the read lock, and the loop waits for
\* itself.
RecvTaskCompleted ==
    /\ Receives({"TaskCompleted"})
    /\ LET c == Head(rx)
           ts == SetStatus(tasks, c.p, c.t, "Completed")
       IN
       /\ active_tasks' = Remove(active_tasks, QueueId(c.p, c.t))
       /\ tasks' = ts
       /\ IF HasProjectTasks(ts, c.p) /\ AllCompleted(ts, c.p)
          THEN /\ projects' = IF projects[c.p] = Absent THEN projects
                              ELSE [projects EXCEPT ![c.p] = "Completed"]
               /\ queue' = check_for_unblocked_tasks(ts, queue, c.p)
               /\ sched_pc' = AfterCommand(is_running, active_tasks')
               /\ UNCHANGED stuck_locks
          ELSE /\ sched_pc' = "deadlock"
               /\ stuck_locks' = stuck_locks \cup {"tasks"}
               /\ UNCHANGED <<projects, queue>>
    /\ waited' = WaitedAfter(tasks')
    /\ UNCHANGED <<agents, connections, is_running, free_rotation, events,
                   context, now, chain, executor, suspended, ops>>

\* a mutation of handle_task_failed: the retry test is <= instead of <
handle_task_failed_one_more(ts, q, p, t) ==
    LET i == FindTask(ts, p, t) IN
    IF i = 0 THEN [tasks |-> ts, queue |-> q]
    ELSE IF ts[p][i].retry_count <= MaxRetries
    THEN [tasks |-> [ts EXCEPT ![p][i].status = "Queued",
                               ![p][i].error = TRUE,
                               ![p][i].retry_count = @ + 1],
          queue |-> Append(q, QueueId(p, t))]
    ELSE [tasks |-> [ts EXCEPT ![p][i].status = "Failed",
                               ![p][i].error = TRUE],
          queue |-> q]

\* handle_task_failed
handle_task_failed(ts, q, p, t) ==
    LET i == FindTask(ts, p, t) IN
    IF i = 0 THEN [tasks |-> ts, queue |-> q]
    ELSE IF ts[p][i].retry_count < MaxRetries
    THEN [tasks |-> [ts EXCEPT ![p][i].status = "Queued",
                               ![p][i].error = TRUE,
                               ![p][i].retry_count = @ + 1],
          queue |-> Append(q, QueueId(p, t))]
    ELSE [tasks |-> [ts EXCEPT ![p][i].status = "Failed",
                               ![p][i].error = TRUE],
          queue |-> q]

RecvTaskFailed ==
    /\ Receives({"TaskFailed"})
    /\ LET c == Head(rx)
           r == handle_task_failed(tasks, queue, c.p, c.t)
       IN
       /\ active_tasks' = Remove(active_tasks, QueueId(c.p, c.t))
       /\ tasks' = r.tasks
       /\ queue' = r.queue
    /\ waited' = WaitedAfter(tasks')
    /\ sched_pc' = AfterCommand(is_running, active_tasks')
    /\ UNCHANGED <<projects, agents, connections, is_running, free_rotation,
                   stuck_locks, events, context, now, chain, executor, suspended, ops>>

RecvReorderQueue ==
    /\ Receives({"ReorderQueue"})
    /\ queue' = Head(rx).order
    /\ sched_pc' = AfterCommand(is_running, active_tasks)
    /\ UNCHANGED <<projects, tasks, agents, connections, active_tasks,
                   is_running, free_rotation, stuck_locks, events, context, now, chain, executor, suspended,
                   waited, ops>>

\* a tick that finds no command and goes on to process_queue
TickNoCommand ==
    /\ sched_pc = "idle"
    /\ rx = <<>>
    /\ AfterCommand(is_running, active_tasks) = "pq"
    /\ sched_pc' = "pq"
    /\ UNCHANGED <<projects, tasks, agents, connections, queue, active_tasks,
                   rx, is_running, free_rotation, stuck_locks, events,
                   context, now, chain, executor, suspended, waited, ops>>

\* --- process_queue, one iteration of its while loop per step -------------
WellFormed(qid) == Len(qid) = 2

\* while let Some(..) = queue.pop_front() fails: the pass ends
PQEmpty ==
    /\ sched_pc = "pq"
    /\ queue = <<>>
    /\ sched_pc' = "idle"
    /\ UNCHANGED <<projects, tasks, agents, connections, queue, active_tasks,
                   rx, is_running, free_rotation, stuck_locks, events,
                   context, now, chain, executor, suspended, waited, ops>>

\* parts.len() != 2: the entry is dropped
PQSkipMalformed ==
    /\ sched_pc = "pq"
    /\ queue # <<>>
    /\ ~WellFormed(Head(queue))
    /\ queue' = Tail(queue)
    /\ UNCHANGED <<projects, tasks, agents, connections, active_tasks, rx,
                   is_running, free_rotation, sched_pc, stuck_locks, events,
                   context, now, chain, executor, suspended, waited, ops>>

\* dependencies not met: back to the tail, next entry
PQRequeueUnmet ==
    /\ sched_pc = "pq"
    /\ queue # <<>>
    /\ WellFormed(Head(queue))
    /\ ~are_dependencies_met(tasks, Head(queue)[1], Head(queue)[2])
    /\ queue' = Append(Tail(queue), Head(queue))
    /\ UNCHANGED <<projects, tasks, agents, connections, active_tasks, rx,
                   is_running, free_rotation, sched_pc, stuck_locks, events,
                   context, now, chain, executor, suspended, waited, ops>>

\* start_task_execution: status Running and started_at = Some(now) (modelled
\* as TRUE; None is FALSE) for the task with this id, if there is one.
start_task_execution(ts, p, t) ==
    IF FindTask(ts, p, t) = 0 THEN ts
    ELSE [ts EXCEPT ![p][FindTask(ts, p, t)].status = "Running",
                    ![p][FindTask(ts, p, t)].started_at = TRUE]

\* a mutation of AfterDispatch: the loop goes on whatever the count
AfterDispatchNoBreak(act) == "pq"

\* if self.active_tasks.read().len() >= max_concurrent { break; }
AfterDispatch(act) ==
    IF Cardinality(DOMAIN act) >= MaxConcurrentTasks THEN "idle" ELSE "pq"

PQDispatch ==
    /\ sched_pc = "pq"
    /\ queue # <<>>
    /\ WellFormed(Head(queue))
    /\ LET p == Head(queue)[1]
           t == Head(queue)[2]
       IN
       /\ are_dependencies_met(tasks, p, t)
       /\ \E r \in find_suitable_agent(tasks, agents, active_tasks,
                                       free_rotation, p, t) :
            /\ r.agent # NoAgent
            /\ free_rotation' = r.rotation
            /\ active_tasks' = Insert(active_tasks, Head(queue), r.agent)
            /\ tasks' = start_task_execution(tasks, p, t)
            /\ projects' = IF projects[p] = "Queued"
                           THEN [projects EXCEPT ![p] = "Running"]
                           ELSE projects
       /\ queue' = Tail(queue)
       /\ sched_pc' = AfterDispatch(active_tasks')
    /\ waited' = WaitedAfter(tasks')
    /\ UNCHANGED <<agents, connections, rx, is_running, stuck_locks, events,
                   context, now, chain, executor, suspended, ops>>

\* a mutation of PQNoAgent: the entry is dropped instead of re-queued
PQNoAgent_dropped ==
    /\ sched_pc = "pq"
    /\ queue # <<>>
    /\ WellFormed(Head(queue))
    /\ LET p == Head(queue)[1]
           t == Head(queue)[2]
       IN
       /\ are_dependencies_met(tasks, p, t)
       /\ \E r \in find_suitable_agent(tasks, agents, active_tasks,
                                       free_rotation, p, t) :
            /\ r.agent = NoAgent
            /\ free_rotation' = r.rotation
    /\ queue' = Tail(queue)
    /\ sched_pc' = "idle"
    /\ UNCHANGED <<projects, tasks, agents, connections, active_tasks, rx,
                   is_running, stuck_locks, events, context, now, chain,
                   executor, suspended, waited, ops>>

\* no agent for a ready task: back to the tail, the pass ends
PQNoAgent ==
    /\ sched_pc = "pq"
    /\ queue # <<>>
    /\ WellFormed(Head(queue))
    /\ LET p == Head(queue)[1]
           t == Head(queue)[2]
       IN
       /\ are_dependencies_met(tasks, p, t)
       /\ \E r \in find_suitable_agent(tasks, agents, active_tasks,
                                       free_rotation, p, t) :
            /\ r.agent = NoAgent
            /\ free_rotation' = r.rotation
    /\ queue' = Append(Tail(queue), Head(queue))
    /\ sched_pc' = "idle"
    /\ UNCHANGED <<projects, tasks, agents, connections, active_tasks, rx,
                   is_running, stuck_locks, events, context, now, chain, executor, suspended, waited, ops>>


\* ------------------------------------------------------------------------
\* Agent Pool
\* ------------------------------------------------------------------------
\* a mutation of get_available_agents: the health status is not looked at
get_available_agents_any_health(ags, conns, cap) ==
    Filter(ags, {ags[k].name : k \in
                    {k \in DOMAIN ags :
                        /\ ags[k].enabled
                        /\ cap \in ags[k].capabilities
                        /\ ags[k].name \in conns}})

get_available_agents(ags, conns, cap) ==
    Filter(ags, {ags[k].name : k \in
                    {k \in DOMAIN ags :
                        /\ ags[k].enabled
                        /\ cap \in ags[k].capabilities
                        /\ ags[k].health.status # "Unhealthy"
                        /\ ags[k].name \in conns}})

\* a mutation of HealthStatusOf: the thresholds are reached, not exceeded
HealthStatusOfAtLeast(succ, fail) ==
    IF 2 * fail >= succ + fail THEN "Unhealthy"
    ELSE IF 10 * fail >= succ + fail THEN "Degraded"
    ELSE "Healthy"

\* error_rate = failure_count / (success_count + failure_count), compared
\* with 0.5 and 0.1
HealthStatusOf(succ, fail) ==
    IF 2 * fail > succ + fail THEN "Unhealthy"
    ELSE IF 10 * fail > succ + fail THEN "Degraded"
    ELSE "Healthy"

update_agent_health(ags, name, is_success) ==
    [k \in DOMAIN ags |->
        IF ags[k].name # name THEN ags[k]
        ELSE LET succ == ags[k].health.success_count + (IF is_success THEN 1 ELSE 0)
                 fail == ags[k].health.failure_count + (IF is_success THEN 0 ELSE 1)
             IN [ags[k] EXCEPT !.health =
                    [status |-> HealthStatusOf(succ, fail),
                     success_count |-> succ, failure_count |-> fail]]]

\* What one call of an agent can come to: a local agent always answers with
\* success; a remote one answers with success, with a structured failure
\* (non-2xx status), or the call ends in a transport or timeout error.
Outcomes(agent) == IF agent.local THEN {"success"}
                   ELSE {"success", "failure", "error"}

\* ------------------------------------------------------------------------
\* Execution Engine
\* ------------------------------------------------------------------------
Cmd(kind) == [cmd |-> kind]

TaskCmd(kind, p, t) == [cmd |-> kind, p |-> p, t |-> t]

Event(kind, p, t) == [ev |-> kind, p |-> p, t |-> t]

\* the EnqueueTask commands start_project sends: one per Queued task
RECURSIVE EnqueueQueued(_, _)
EnqueueQueued(p, ts) ==
    IF ts = <<>> THEN <<>>
    ELSE IF Head(ts).status = "Queued"
         THEN <<TaskCmd("EnqueueTask", p, Head(ts).id)>> \o EnqueueQueued(p, Tail(ts))
         ELSE EnqueueQueued(p, Tail(ts))

\* start_project, for a project id that is not in the project map yet.  If
\* state.tasks is held for ever, the call stops after storing the project.
StartProject(p, ptype) ==
    /\ projects[p] = Absent
    /\ ops > 0 \/ p = ProjOrder[1]
    /\ ops' = IF p = ProjOrder[1] THEN ops ELSE ops - 1
    /\ \A k \in DOMAIN ProjOrder :
          ProjOrder[k] = p => \A j \in 1..(k - 1) : projects[ProjOrder[j]] # Absent
    /\ "projects" \notin stuck_locks
    /\ projects' = [projects EXCEPT ![p] = "Queued"]
    /\ IF "tasks" \in stuck_locks
       THEN UNCHANGED <<tasks, rx, events>>
       ELSE /\ tasks' = [tasks EXCEPT ![p] = shred_project(ptype)]
            /\ rx' = rx \o EnqueueQueued(p, shred_project(ptype)) \o <<Cmd("Start")>>
            /\ UNCHANGED events
    /\ waited' = WaitedAfter(tasks')
    /\ UNCHANGED <<agents, connections, queue, active_tasks, is_running,
                   free_rotation, sched_pc, stuck_locks, context, now, chain, executor, suspended>>

SetProjectStatus(ps, p, st) ==
    IF ps[p] = Absent THEN ps ELSE [ps EXCEPT ![p] = st]

PauseProject(p) ==
    /\ ops > 0
    /\ "projects" \notin stuck_locks
    /\ ops' = ops - 1
    /\ projects' = SetProjectStatus(projects, p, "Paused")
    /\ rx' = Append(rx, Cmd("Pause"))
    /\ UNCHANGED <<tasks, agents, connections, queue, active_tasks,
                   is_running, free_rotation, sched_pc, stuck_locks, events,
                   context, now, chain, executor, suspended, waited>>

ResumeProject(p) ==
    /\ ops > 0
    /\ "projects" \notin stuck_locks
    /\ ops' = ops - 1
    /\ projects' = SetProjectStatus(projects, p, "Running")
    /\ rx' = Append(rx, Cmd("Resume"))
    /\ UNCHANGED <<tasks, agents, connections, queue, active_tasks,
                   is_running, free_rotation, sched_pc, stuck_locks, events,
                   context, now, chain, executor, suspended, waited>>

\* a mutation of CancelTasks: every task of the project is cancelled
CancelTasksAll(ts, p) ==
    [ts EXCEPT ![p] = [i \in DOMAIN ts[p] |->
        [ts[p][i] EXCEPT !.status = "Cancelled"]]]

CancelTasks(ts, p) ==
    [ts EXCEPT ![p] = [i \in DOMAIN ts[p] |->
        IF ts[p][i].status \in {"Queued", "Running"}
        THEN [ts[p][i] EXCEPT !.status = "Cancelled"]
        ELSE ts[p][i]]]

\* cancel_project keeps the guard on state.projects to its end; when
\* state.tasks is held for ever it waits for it with state.projects held.
CancelProject(p) ==
    /\ ops > 0
    /\ "projects" \notin stuck_locks
    /\ ops' = ops - 1
    /\ projects' = SetProjectStatus(projects, p, "Cancelled")
    /\ IF "tasks" \in stuck_locks
       THEN /\ stuck_locks' = stuck_locks \cup {"projects"}
            /\ UNCHANGED <<tasks, context, now, chain, executor, suspended>>
       ELSE /\ tasks' = CancelTasks(tasks, p)
            /\ context' = clear_project_context(context, p)
            /\ UNCHANGED <<stuck_locks, now, chain, executor, suspended>>
    /\ waited' = WaitedAfter(tasks')
    /\ UNCHANGED <<agents, connections, queue, active_tasks, rx, is_running,
                   free_rotation, sched_pc, events>>

\* execute_task.  The agent is the first one get_available_agents returns.
execute_task(p, t, outcome) ==
    /\ "tasks" \notin stuck_locks
    /\ FindTask(tasks, p, t) # 0
    /\ LET task == tasks[p][FindTask(tasks, p, t)]
           available == get_available_agents(agents, connections, task.capability)
       IN
       /\ available # <<>>
       /\ outcome \in Outcomes(Head(available))
       /\ agents' = update_agent_health(agents, Head(available).name,
                                        outcome = "success")
       /\ CASE outcome = "success" ->
                 /\ context' = add_context(context,
                        MkEntry(FreshCtxId(context), p, t, task.input_chain,
                                Some(3600), now))
                 /\ tasks' = SetStatus(tasks, p, t, "Completed")
                 /\ events' = Append(events, Event("TaskCompleted", p, t))
                 /\ rx' = Append(rx, TaskCmd("TaskCompleted", p, t))
            [] outcome = "failure" ->
                 /\ rx' = Append(rx, TaskCmd("TaskFailed", p, t))
                 /\ UNCHANGED <<context, tasks, events>>
            [] OTHER ->
                 UNCHANGED <<context, tasks, rx, events>>
    /\ waited' = WaitedAfter(tasks')
    /\ UNCHANGED <<projects, connections, queue, active_tasks, is_running,
                   free_rotation, sched_pc, stuck_locks, now, chain, executor, suspended>>

\* a call of execute_task charged to the budget of the environment
ExecuteTask(p, t, outcome) ==
    /\ ops > 0
    /\ ops' = ops - 1
    /\ execute_task(p, t, outcome)

\* submit_clarification
SubmitClarification(p) ==
    /\ ops > 0
    /\ "projects" \notin stuck_locks
    /\ ops' = ops - 1
    /\ context' = add_context(context,
            MkEntry(FreshCtxId(context), p, 0, <<>>, None, now))
    /\ projects' = IF projects[p] = "WaitingClarification"
                   THEN [projects EXCEPT ![p] = "Queued"] ELSE projects
    /\ rx' = Append(rx, Cmd("Resume"))
    /\ UNCHANGED <<tasks, agents, connections, queue, active_tasks,
                   is_running, free_rotation, sched_pc, stuck_locks, events,
                   now, chain, executor, suspended, waited>>

\* approve_task that re-queues the task and leaves approval_required set
ApproveTask_keeps_approval_required(p, t, approved) ==
    /\ ops > 0
    /\ "tasks" \notin stuck_locks
    /\ ops' = ops - 1
    /\ LET i == FindTask(tasks, p, t) IN
       IF i = 0 THEN UNCHANGED <<tasks, rx>>
       ELSE IF approved
       THEN /\ tasks' = [tasks EXCEPT ![p][i].status = "Queued"]
            /\ rx' = Append(rx, TaskCmd("EnqueueTask", p, t))
       ELSE /\ tasks' = SetStatus(tasks, p, t, "Cancelled")
            /\ UNCHANGED rx
    /\ waited' = WaitedAfter(tasks')
    /\ UNCHANGED <<projects, agents, connections, queue, active_tasks,
                   is_running, free_rotation, sched_pc, stuck_locks, events,
                   context, now, chain, executor, suspended>>

\* approve_task
ApproveTask(p, t, approved) ==
    /\ ops > 0
    /\ "tasks" \notin stuck_locks
    /\ ops' = ops - 1
    /\ LET i == FindTask(tasks, p, t) IN
       IF i = 0 THEN UNCHANGED <<tasks, rx>>
       ELSE IF approved
       THEN /\ tasks' = [tasks EXCEPT ![p][i].status = "Queued",
                                      ![p][i].approval_required = FALSE]
            /\ rx' = Append(rx, TaskCmd("EnqueueTask", p, t))
       ELSE /\ tasks' = SetStatus(tasks, p, t, "Cancelled")
            /\ UNCHANGED rx
    /\ waited' = WaitedAfter(tasks')
    /\ UNCHANGED <<projects, agents, connections, queue, active_tasks,
                   is_running, free_rotation, sched_pc, stuck_locks, events,
                   context, now, chain, executor, suspended>>

\* process_events, one event per step.  ProjectStarted, TaskStarted and
\* TaskFailed events have an empty handler: the consumer drops them, and
\* they are not represented on the channel.
ConsumeProjectCompleted ==
    /\ events # <<>>
    /\ Head(events).ev = "ProjectCompleted"
    /\ "projects" \notin stuck_locks
    /\ projects' = SetProjectStatus(projects, Head(events).p, "Completed")
    /\ events' = Tail(events)
    /\ UNCHANGED <<tasks, agents, connections, queue, active_tasks, rx,
                   is_running, free_rotation, sched_pc, stuck_locks, context, now, chain, executor, suspended,
                   waited, ops>>

ConsumeTaskCompleted ==
    /\ events # <<>>
    /\ Head(events).ev = "TaskCompleted"
    /\ "tasks" \notin stuck_locks
    /\ LET p == Head(events).p IN
       events' = IF HasProjectTasks(tasks, p) /\ AllCompleted(tasks, p)
                 THEN Append(Tail(events), Event("ProjectCompleted", p, 0))
                 ELSE Tail(events)
    /\ UNCHANGED <<projects, tasks, agents, connections, queue, active_tasks,
                   rx, is_running, free_rotation, sched_pc, stuck_locks,
                   context, now, chain, executor, suspended, waited, ops>>

\* ------------------------------------------------------------------------
\* TaskRunner
\* ------------------------------------------------------------------------
\* task_value["task_id"].as_str().unwrap_or(""): a serialized Task has the
\* key "id" and no key "task_id"
JsonTaskId(task) == ""

\* the tasks run_project gets as far as checking and running
RunnableTasks(ts, p) == {i \in DOMAIN ts[p] : JsonTaskId(ts[p][i]) # ""}

\* run_project: every task whose task_id is empty is skipped, and the
\* project is marked Completed at the end of the loop
RunProject(p) ==
    /\ ops > 0
    /\ "projects" \notin stuck_locks
    /\ "tasks" \notin stuck_locks
    /\ RunnableTasks(tasks, p) = {}
    /\ ops' = ops - 1
    /\ projects' = SetProjectStatus(projects, p, "Completed")
    /\ UNCHANGED <<tasks, agents, connections, queue, active_tasks, rx,
                   is_running, free_rotation, sched_pc, stuck_locks, events,
                   context, now, chain, executor, suspended, waited>>

\* ------------------------------------------------------------------------
\* Task commands
\* ------------------------------------------------------------------------
\* tasks_delete: tasks.retain(|t| t.id != task_id).  The model deletes no
\* last task of a project: it writes an empty list as "no entry".
TasksDelete(p, t) ==
    /\ ops > 0
    /\ "tasks" \notin stuck_locks
    /\ Len(tasks[p]) > 1
    /\ ops' = ops - 1
    /\ tasks' = [tasks EXCEPT ![p] = SelectSeq(tasks[p], LAMBDA x : x.id # t)]
    /\ UNCHANGED <<projects, agents, connections, queue, active_tasks, rx,
                   is_running, free_rotation, sched_pc, stuck_locks, events,
                   context, now, chain, executor, suspended, waited>>

\* ------------------------------------------------------------------------
\* Commands sent through TaskScheduler::sender by other callers
\* ------------------------------------------------------------------------
Reverse(s) == [i \in 1..Len(s) |-> s[Len(s) + 1 - i]]

QueueIdInputs == {QueueId(p, t) : p \in GenProjIds, t \in {1, 2}} \cup {<<"p1">>}

ReorderInputs(q) == {Reverse(q)} \cup {<<x>> : x \in QueueIdInputs}

SendReorderQueue(order) ==
    /\ ops > 0
    /\ ops' = ops - 1
    /\ rx' = Append(rx, [cmd |-> "ReorderQueue", order |-> order])
    /\ UNCHANGED <<projects, tasks, agents, connections, queue, active_tasks,
                   is_running, free_rotation, sched_pc, stuck_locks, events,
                   context, now, chain, executor, suspended, waited>>

SendStop ==
    /\ ops > 0
    /\ ops' = ops - 1
    /\ rx' = Append(rx, Cmd("Stop"))
    /\ UNCHANGED <<projects, tasks, agents, connections, queue, active_tasks,
                   is_running, free_rotation, sched_pc, stuck_locks, events,
                   context, now, chain, executor, suspended, waited>>

\* ------------------------------------------------------------------------
\* The system
\* ------------------------------------------------------------------------
ModelTypes == {"Custom", "Design"}

TaskIds(p) == {tasks[p][i].id : i \in DOMAIN tasks[p]}

SchedulerStep ==
    \/ RecvStart
    \/ RecvPause
    \/ RecvEnqueueTask
    \/ RecvTaskCompleted
    \/ RecvTaskFailed
    \/ RecvReorderQueue
    \/ TickNoCommand
    \/ PQEmpty
    \/ PQSkipMalformed
    \/ PQRequeueUnmet
    \/ PQDispatch
    \/ PQNoAgent

\* The open environment: every operation of the engine, of the TaskRunner
\* and of the scheduler's sender may be called at any time, on any task.
\* A ProjectCompleted event needs a project whose tasks were all executed,
\* which takes more calls than MaxOps allows: its consumer is part of
\* SpecEngine below.
Next ==
    \/ SchedulerStep
    \/ ConsumeTaskCompleted
    \/ \E p \in GenProjIds, ptype \in ModelTypes : StartProject(p, ptype)
    \/ \E p \in GenProjIds : PauseProject(p)
    \/ \E p \in GenProjIds : ResumeProject(p)
    \/ \E p \in GenProjIds : CancelProject(p)
    \/ \E p \in GenProjIds : \E t \in TaskIds(p) :
          \E o \in {"success", "failure", "error"} : ExecuteTask(p, t, o)
    \/ \E p \in GenProjIds : SubmitClarification(p)
    \/ \E p \in GenProjIds : \E t \in TaskIds(p), b \in BOOLEAN : ApproveTask(p, t, b)
    \/ \E p \in GenProjIds : RunProject(p)
    \/ \E p \in GenProjIds : \E t \in TaskIds(p) : TasksDelete(p, t)
    \/ \E order \in ReorderInputs(queue) : SendReorderQueue(order)
    \/ SendStop

Spec == Init /\ [][Next]_vars

\* The pipeline as it is meant to run: projects are started, and the engine
\* executes each task the scheduler has dispatched, once per dispatch.
Reported(q) ==
    \E i \in DOMAIN rx : /\ rx[i].cmd \in {"TaskCompleted", "TaskFailed"}
                         /\ QueueId(rx[i].p, rx[i].t) = q

\* the project types of the pipeline runs: any modelled type for the first
\* project, Custom for the others
RunTypes(p) == IF p = ProjOrder[1] THEN ModelTypes ELSE {"Custom"}

ExecuteDispatched ==
    \E q \in DOMAIN active_tasks : \E o \in {"success", "failure", "error"} :
        /\ ~Reported(q)
        /\ ExecuteTask(q[1], q[2], o)

\* With these calls only, no Pause, Stop or ReorderQueue command is ever
\* sent, every queue id is well formed and names a task without unmet
\* dependencies, and no project gets all its tasks Completed.
NextRun ==
    \/ RecvStart
    \/ RecvEnqueueTask
    \/ RecvTaskCompleted
    \/ RecvTaskFailed
    \/ TickNoCommand
    \/ PQEmpty
    \/ PQDispatch
    \/ PQNoAgent
    \/ ConsumeTaskCompleted
    \/ \E p \in ProjIds : \E ptype \in RunTypes(p) : StartProject(p, ptype)
    \/ ExecuteDispatched

SpecRun == InitRun /\ [][NextRun]_vars

\* The engine executing the tasks of one project directly, in any order,
\* with the scheduler and the event consumer running beside it.
InitEngine == Boot(MixedAgents, MaxEngineOps)

NextEngine ==
    \/ RecvStart
    \/ RecvEnqueueTask
    \/ RecvTaskCompleted
    \/ RecvTaskFailed
    \/ TickNoCommand
    \/ PQEmpty
    \/ PQDispatch
    \/ ConsumeTaskCompleted
    \/ ConsumeProjectCompleted
    \/ \E ptype \in ModelTypes : StartProject(ProjOrder[1], ptype)
    \/ \E t \in TaskIds(ProjOrder[1]) :
          \E o \in {"success", "failure", "error"} :
             ExecuteTask(ProjOrder[1], t, o)

SpecEngine == InitEngine /\ [][NextEngine]_vars

\* Projects that are cancelled while their tasks are queued, dispatched or
\* executed, and while the pool holds entries of other projects.
InitCancel == Boot(MixedAgents, MaxCancelOps)

NextCancel ==
    \/ RecvStart
    \/ RecvEnqueueTask
    \/ RecvTaskCompleted
    \/ TickNoCommand
    \/ PQEmpty
    \/ PQDispatch
    \/ \E p \in GenProjIds : StartProject(p, "Custom")
    \/ \E p \in GenProjIds : \E t \in TaskIds(p) : ExecuteTask(p, t, "success")
    \/ \E p \in GenProjIds : SubmitClarification(p)
    \/ \E p \in GenProjIds : CancelProject(p)

SpecCancel == InitCancel /\ [][NextCancel]_vars

\* Agents whose calls succeed and fail: the engine executes tasks on the
\* first available agent while the scheduler dispatches the queued ones.
InitHealth == \E succ \in HealthSuccCounts : Boot(HealthAgents(succ), MaxHealthOps)

NextHealth ==
    \/ RecvStart
    \/ RecvEnqueueTask
    \/ RecvTaskCompleted
    \/ RecvTaskFailed
    \/ TickNoCommand
    \/ PQEmpty
    \/ PQDispatch
    \/ \E p \in GenProjIds : StartProject(p, "Custom")
    \/ \E p \in GenProjIds : \E t \in TaskIds(p) :
          \E o \in {"success", "failure", "error"} : ExecuteTask(p, t, o)

SpecHealth == InitHealth /\ [][NextHealth]_vars

\* Projects of every type: start_project stores what the shredder returns
\* and the scheduler dispatches the tasks that are ready.
ProjectTypes == {"CodingProject", "DataAnalysis", "Research", "Writing",
                 "Design", "Marketing", "Custom"}

InitShred == Boot(MixedAgents, MaxShredOps)

NextShred ==
    \/ RecvStart
    \/ RecvEnqueueTask
    \/ TickNoCommand
    \/ PQEmpty
    \/ PQDispatch
    \/ \E p \in GenProjIds, ptype \in ProjectTypes : StartProject(p, ptype)

SpecShred == InitShred /\ [][NextShred]_vars

\* The scheduler loop as a spawned task that keeps running, beside an engine
\* that starts projects, approves tasks (which enqueues them whatever their
\* dependencies) and deletes tasks.
SchedulerPass ==
    \/ RecvStart
    \/ RecvEnqueueTask
    \/ TickNoCommand
    \/ PQEmpty
    \/ PQRequeueUnmet
    \/ PQDispatch
    \/ PQNoAgent

InitPass == Boot(LocalAgents, MaxPassOps)

NextPass ==
    \/ SchedulerPass
    \/ \E p \in GenProjIds : StartProject(p, "Custom")
    \/ \E p \in GenProjIds : \E t \in TaskIds(p) : ApproveTask(p, t, TRUE)
    \/ \E p \in GenProjIds : \E t \in TaskIds(p) : TasksDelete(p, t)

SpecPass == InitPass /\ [][NextPass]_vars /\ WF_vars(SchedulerPass)

\* ------------------------------------------------------------------------
\* Engine calls between their awaits
\* ------------------------------------------------------------------------
\* A call that has reached an await: the operation, its arguments, and the
\* guards of state locks that are alive at that point.
Suspension(op, p, t, ptype, held) ==
    [op |-> op, p |-> p, t |-> t, ptype |-> ptype, held |-> held]

HeldLocks == UNION {s.held : s \in suspended}

\* a parking_lot write() returns only when nobody holds the lock
LockFree(l) == l \notin HeldLocks /\ l \notin stuck_locks

state_frame == <<agents, connections, queue, active_tasks, is_running,
                 free_rotation, sched_pc, stuck_locks, events, context, now,
                 chain, executor>>

\* start_project up to its first send().await: both maps are written in
\* blocks of their own, whose guards are dropped at the closing brace
start_project_stored(p, ptype) ==
    /\ projects[p] = Absent
    /\ ops > 0 \/ p = ProjOrder[1]
    /\ ops' = IF p = ProjOrder[1] THEN ops ELSE ops - 1
    /\ \A k \in DOMAIN ProjOrder :
          ProjOrder[k] = p => \A j \in 1..(k - 1) : projects[ProjOrder[j]] # Absent
    /\ LockFree("projects")
    /\ LockFree("tasks")
    /\ projects' = [projects EXCEPT ![p] = "Queued"]
    /\ tasks' = [tasks EXCEPT ![p] = shred_project(ptype)]
    /\ waited' = WaitedAfter(tasks')
    /\ suspended' = suspended \cup {Suspension("start_project", p, 0, ptype, {})}
    /\ UNCHANGED <<state_frame, rx>>

\* the sends of start_project
start_project_sent(p, ptype) ==
    /\ Suspension("start_project", p, 0, ptype, {}) \in suspended
    /\ rx' = rx \o EnqueueQueued(p, shred_project(ptype)) \o <<Cmd("Start")>>
    /\ suspended' = suspended \ {Suspension("start_project", p, 0, ptype, {})}
    /\ UNCHANGED <<state_frame, projects, tasks, waited, ops>>

\* pause_project up to send().await: `projects` is a local of the function
\* body and lives until the function returns
pause_project_locked(p) ==
    /\ ops > 0
    /\ ops' = ops - 1
    /\ LockFree("projects")
    /\ projects' = SetProjectStatus(projects, p, "Paused")
    /\ suspended' = suspended
                       \cup {Suspension("pause_project", p, 0, "", {"projects"})}
    /\ UNCHANGED <<state_frame, tasks, rx, waited>>

\* the send of pause_project, and its return
pause_project_sent(p) ==
    /\ Suspension("pause_project", p, 0, "", {"projects"}) \in suspended
    /\ rx' = Append(rx, Cmd("Pause"))
    /\ suspended' = suspended
                       \ {Suspension("pause_project", p, 0, "", {"projects"})}
    /\ UNCHANGED <<state_frame, projects, tasks, waited, ops>>

\* resume_project, likewise
resume_project_locked(p) ==
    /\ ops > 0
    /\ ops' = ops - 1
    /\ LockFree("projects")
    /\ projects' = SetProjectStatus(projects, p, "Running")
    /\ suspended' = suspended
                       \cup {Suspension("resume_project", p, 0, "", {"projects"})}
    /\ UNCHANGED <<state_frame, tasks, rx, waited>>

resume_project_sent(p) ==
    /\ Suspension("resume_project", p, 0, "", {"projects"}) \in suspended
    /\ rx' = Append(rx, Cmd("Resume"))
    /\ suspended' = suspended
                       \ {Suspension("resume_project", p, 0, "", {"projects"})}
    /\ UNCHANGED <<state_frame, projects, tasks, waited, ops>>

\* approve_task(.., true) for a stored task, up to send().await: `tasks` is
\* a local of the function body
approve_task_locked(p, t) ==
    /\ ops > 0
    /\ ops' = ops - 1
    /\ LockFree("tasks")
    /\ FindTask(tasks, p, t) # 0
    /\ tasks' = [tasks EXCEPT ![p][FindTask(tasks, p, t)].status = "Queued",
                              ![p][FindTask(tasks, p, t)].approval_required = FALSE]
    /\ waited' = WaitedAfter(tasks')
    /\ suspended' = suspended \cup {Suspension("approve_task", p, t, "", {"tasks"})}
    /\ UNCHANGED <<state_frame, projects, rx>>

approve_task_sent(p, t) ==
    /\ Suspension("approve_task", p, t, "", {"tasks"}) \in suspended
    /\ rx' = Append(rx, TaskCmd("EnqueueTask", p, t))
    /\ suspended' = suspended \ {Suspension("approve_task", p, t, "", {"tasks"})}
    /\ UNCHANGED <<state_frame, projects, tasks, waited, ops>>

\* Engine calls that overlap.  The scheduler reads and writes state.tasks in
\* every step that handles a task, so it runs while no call holds that lock.
InitLocks == Boot(MixedAgents, MaxLockOps)

NextLocks ==
    \/ \E p \in GenProjIds : start_project_stored(p, "Custom")
    \/ \E p \in GenProjIds : start_project_sent(p, "Custom")
    \/ \E p \in GenProjIds : pause_project_locked(p)
    \/ \E p \in GenProjIds : pause_project_sent(p)
    \/ \E p \in GenProjIds : resume_project_locked(p)
    \/ \E p \in GenProjIds : resume_project_sent(p)
    \/ \E p \in GenProjIds : \E t \in TaskIds(p) : approve_task_locked(p, t)
    \/ \E p \in GenProjIds : \E t \in TaskIds(p) : approve_task_sent(p, t)
    \/ \E p \in GenProjIds : \E t \in TaskIds(p) :
          LockFree("tasks") /\ ApproveTask(p, t, FALSE)
    \/ LockFree("tasks") /\ RecvStart
    \/ LockFree("tasks") /\ RecvPause
    \/ LockFree("tasks") /\ RecvEnqueueTask
    \/ LockFree("tasks") /\ TickNoCommand
    \/ LockFree("tasks") /\ PQEmpty
    \/ LockFree("tasks") /\ PQDispatch

SpecLocks == InitLocks /\ [][NextLocks]_vars

\* ------------------------------------------------------------------------
\* SimpleExecutor::execute_task, one provider call per step
\* ------------------------------------------------------------------------
\* everything but the executor and the clock
exec_frame == <<projects, tasks, agents, connections, queue, active_tasks,
                rx, is_running, free_rotation, sched_pc, stuck_locks, events,
                context, chain, suspended, waited>>

\* pub async fn execute_task(&self, mut task: TaskExecution): the call is
\* made and reaches its first attempt
SimpleExecutor_execute_task(task) ==
    /\ executor.call.pc \in {"idle", "done"}
    /\ ops > 0
    /\ ops' = ops - 1
    /\ executor' = [executor EXCEPT !.call =
                       [pc |-> "first", task |-> task, given |-> task,
                        attempts |-> <<>>, result |-> NoResult]]
    /\ UNCHANGED <<exec_frame, now>>

\* a provider call can be made: its limiter lets it pass, or the
\* capability has no provider and the attempt fails at once
CanAttempt(ok) ==
    LET pr == LimiterOf(executor.call.task) IN
    IF pr = "none" THEN ~ok
    ELSE can_acquire(executor.rate_limiters[pr], now)

\* limiter.acquire().await? at the head of call_openai, call_anthropic,
\* call_ollama, call_image_api and call_audio_api
PassLimiter(limiters, task, t_now) ==
    IF LimiterOf(task) = "none" THEN limiters
    ELSE [limiters EXCEPT ![LimiterOf(task)] = acquire(@, t_now)]

\* the first attempt, with the sliced context
FirstAttempt(ok) ==
    /\ executor.call.pc = "first"
    /\ CanAttempt(ok)
    /\ LET call == executor.call
           task == call.task
           made == Append(call.attempts, Attempt(task, FALSE, ok))
       IN executor' =
            [rate_limiters |-> PassLimiter(executor.rate_limiters, task, now),
             call |->
               IF ok
               THEN [call EXCEPT !.pc = "done", !.attempts = made,
                                 !.result = ProviderResult(task)]
               ELSE CASE AfterFirstFailure(task) = "full" ->
                           [call EXCEPT !.pc = "full", !.attempts = made,
                                        !.task.retry_count = @ + 1]
                      [] AfterFirstFailure(task) = "exhausted" ->
                           [call EXCEPT !.pc = "done", !.attempts = made,
                                        !.result = ExhaustedResult]
                      [] OTHER ->
                           [call EXCEPT !.pc = "backoff", !.attempts = made]]
    /\ UNCHANGED <<exec_frame, now, ops>>

\* the retry with the full context
FullContextAttempt(ok) ==
    /\ executor.call.pc = "full"
    /\ CanAttempt(ok)
    /\ LET call == executor.call
           task == call.task
           made == Append(call.attempts, Attempt(task, TRUE, ok))
       IN executor' =
            [rate_limiters |-> PassLimiter(executor.rate_limiters, task, now),
             call |->
               IF ok
               THEN [call EXCEPT !.pc = "done", !.attempts = made,
                                 !.result = ProviderResult(task)]
               ELSE IF task.retry_count >= 1
                    THEN [call EXCEPT !.pc = "done", !.attempts = made,
                                      !.result = ExhaustedResult]
                    ELSE [call EXCEPT !.pc = "backoff", !.attempts = made]]
    /\ UNCHANGED <<exec_frame, now, ops>>

\* let max_retries = task.max_retries.unwrap_or(3): execute_task reads it
\* before the backoff loop and uses it nowhere
max_retries == 3

\* one attempt of retry(backoff, ...): an error is transient and the
\* attempt is repeated until max_elapsed_time has passed (expired); the
\* first Ok result goes through apply_tool if the task has a tool
BackoffAttempt(ok, expired, tool_exit_ok) ==
    /\ executor.call.pc = "backoff"
    /\ CanAttempt(ok)
    /\ LET call == executor.call
           task == call.task
           made == Append(call.attempts, Attempt(task, FALSE, ok))
       IN executor' =
            [rate_limiters |-> PassLimiter(executor.rate_limiters, task, now),
             call |->
               IF ok
               THEN [call EXCEPT !.pc = "done", !.attempts = made,
                                 !.result =
                                    IF task.tool
                                    THEN apply_tool(ProviderResult(task), tool_exit_ok)
                                    ELSE ProviderResult(task)]
               ELSE IF expired \/ Len(made) >= MaxAttempts
                    THEN [call EXCEPT !.pc = "done", !.attempts = made,
                                      !.result = ErrResult("All retries exhausted")]
                    ELSE [call EXCEPT !.attempts = made]]
    /\ UNCHANGED <<exec_frame, now, ops>>

\* thirty seconds pass
HalfWindowPasses ==
    /\ now + 30 * TicksPerSecond <= MaxWindows * WindowSeconds * TicksPerSecond
    /\ now' = now + 30 * TicksPerSecond
    /\ UNCHANGED <<exec_frame, executor, ops>>

\* the calls of execute_task: every capability route, with and without a
\* tool, a full context and an earlier retry
ExecTasks ==
    {MkExecution(c, m, tool, full, rc) :
        c \in {"text", "image", "video"}, m \in {"gpt", "claude"},
        tool \in BOOLEAN, full \in BOOLEAN, rc \in {0, 1}}

InitExec == Boot(LocalAgents, MaxExecOps)

NextExec ==
    \/ \E task \in ExecTasks : SimpleExecutor_execute_task(task)
    \/ \E ok \in BOOLEAN : FirstAttempt(ok)
    \/ \E ok \in BOOLEAN : FullContextAttempt(ok)
    \/ \E ok, expired, tool_exit_ok \in BOOLEAN :
          BackoffAttempt(ok, expired, tool_exit_ok)

SpecExec == InitExec /\ [][NextExec]_vars

\* Many calls in one minute: text tasks that make one attempt each, on two
\* providers, while the clock passes the end of the window.
LimiterTasks ==
    {MkExecution("text", m, FALSE, FALSE, 1) : m \in {"gpt", "claude"}}

InitLimiter == Boot(LocalAgents, MaxLimiterOps)

NextLimiter ==
    \/ \E task \in LimiterTasks : SimpleExecutor_execute_task(task)
    \/ \E ok \in BOOLEAN : FirstAttempt(ok)
    \/ HalfWindowPasses

SpecLimiter == InitLimiter /\ [][NextLimiter]_vars

\* ------------------------------------------------------------------------
\* The Context Pool on its own
\* ------------------------------------------------------------------------
\* everything but the pool, the clock and the last chain
engine_vars == <<projects, tasks, agents, connections, queue, active_tasks,
                 rx, is_running, free_rotation, sched_pc, stuck_locks, events,
                 executor, suspended, waited, ops>>

\* pub fn add_context(&self, entry: ContextEntry)
AddContext(entry) ==
    /\ context' = add_context(context, entry)
    /\ chain' = NoChain
    /\ UNCHANGED <<engine_vars, now>>

\* pub fn remove_context(&self, id: &str), for an id that is stored
RemoveContext(id) ==
    /\ id \in DOMAIN context.entries
    /\ context' = remove_context(context, id)
    /\ chain' = NoChain
    /\ UNCHANGED <<engine_vars, now>>

\* pub fn clear_project_context(&self, project_id: &str), for a project
\* that has an index entry
ClearProjectContext(p) ==
    /\ p \in DOMAIN context.project_contexts
    /\ context' = clear_project_context(context, p)
    /\ chain' = NoChain
    /\ UNCHANGED <<engine_vars, now>>

\* one round of the cleanup task that initialize spawns
CleanupExpired ==
    /\ context' = cleanup_expired(context, now)
    /\ chain' = NoChain
    /\ UNCHANGED <<engine_vars, now>>

\* the clock moves on by one tick
Tick ==
    /\ now < MaxNow
    /\ now' = now + 1
    /\ UNCHANGED <<engine_vars, context, chain>>

\* pub fn get_context_chain(&self, task_id: &str, max_depth: usize)
GetContextChain(t, max_depth) ==
    /\ chain' = [task_id |-> t, max_depth |-> max_depth,
                 did |-> get_context_chain(context, t, max_depth)]
    /\ UNCHANGED <<engine_vars, context, now>>

\* The ids of the first n entries.
CtxIds(n) == {CtxId(k) : k \in 1..n}

\* The reference lists an entry is added with: none, one id (its own, a
\* stored one or one that is not stored yet), or the first two ids.
RefInputs(n) ==
    {<<>>} \cup {<<a>> : a \in CtxIds(n)} \cup {<<CtxId(1), CtxId(2)>>}

\* the tasks that own entries and whose chains are asked for
ChainTasks == {1, 2}

\* Reference graphs of every shape over MaxChainEntries entries of two
\* tasks, and every chain of them.
InitChain == Boot(LocalAgents, 0)

NextChain ==
    \/ \E t \in ChainTasks, refs \in RefInputs(MaxChainEntries) :
          /\ Cardinality(DOMAIN context.entries) < MaxChainEntries
          /\ AddContext(MkEntry(FreshCtxId(context), ProjOrder[1], t, refs,
                                None, now))
    \/ \E t \in ChainTasks, max_depth \in 0..MaxChainDepth :
          GetContextChain(t, max_depth)

SpecChain == InitChain /\ [][NextChain]_vars

\* the (project, task) pairs that own entries
PoolOwners == {<<"p1", 1>>, <<"p1", 2>>, <<"p2", 1>>}

\* the ttl_seconds an entry is added with
TtlInputs == {None, Some(0), Some(1)}

\* A pool whose entries are added, removed and cleared while the clock
\* runs and the cleanup task looks for expired entries.
InitPool == Boot(LocalAgents, 0)

NextPool ==
    \/ \E o \in PoolOwners, ttl \in TtlInputs :
          /\ Cardinality(DOMAIN context.entries) < MaxPoolEntries
          /\ AddContext(MkEntry(FreshCtxId(context), o[1], o[2], <<>>, ttl, now))
    \/ \E id \in DOMAIN context.entries : RemoveContext(id)
    \/ \E p \in GenProjIds : ClearProjectContext(p)
    \/ CleanupExpired
    \/ Tick

SpecPool == InitPool /\ [][NextPool]_vars

\* The pipeline driven to the end: every task the scheduler has dispatched
\* is executed once and answered with success, as often as tasks are
\* dispatched; only the calls of start_project are counted.
ReportCompleted ==
    \E q \in DOMAIN active_tasks :
        /\ ~Reported(q)
        /\ execute_task(q[1], q[2], "success")
        /\ UNCHANGED ops

\* the steps of the loop of TaskScheduler::run in these runs
SchedulerDrive ==
    \/ RecvStart
    \/ RecvEnqueueTask
    \/ RecvTaskCompleted
    \/ TickNoCommand
    \/ PQEmpty
    \/ PQDispatch
    \/ PQNoAgent

NextDrive ==
    \/ SchedulerDrive
    \/ ConsumeTaskCompleted
    \/ \E p \in ProjIds : \E ptype \in RunTypes(p) : StartProject(p, ptype)
    \/ ReportCompleted

\* The scheduler loop and the event consumer are spawned tasks that run for
\* ever, and the executions of dispatched tasks return.  The registry is
\* the pair of local agents.
InitDrive == Boot(LocalAgents, MaxDriveOps)

SpecDrive ==
    /\ InitDrive
    /\ [][NextDrive]_vars
    /\ WF_vars(SchedulerDrive)
    /\ WF_vars(ConsumeTaskCompleted)
    /\ WF_vars(ReportCompleted)

\* A project whose task graph is a join: two independent Queued tasks and a
\* Blocked one that depends on both (tasks_create stores any Task).
GraphProject == ProjOrder[4]

GraphTasks ==
    << MkTask(1, "first", "Text", "Queued", <<>>, <<>>, FALSE),
       MkTask(2, "second", "Text", "Queued", <<>>, <<>>, FALSE),
       MkTask(3, "join", "Text", "Blocked", <<1, 2>>, <<1, 2>>, FALSE) >>

\* The scheduler with one slot left: three projects were started and their
\* first tasks are still running on the remote agents, and the two Queued
\* tasks of the graph project have just been sent to the scheduler.
InitGraph ==
    /\ projects = [p \in ProjIds |->
                     IF p = GraphProject THEN "Queued"
                     ELSE IF p = ProjOrder[5] THEN Absent ELSE "Running"]
    /\ tasks = [p \in ProjIds |->
                  IF p = GraphProject THEN GraphTasks
                  ELSE IF p = ProjOrder[5] THEN <<>>
                  ELSE start_task_execution(
                          [q \in ProjIds |-> shred_custom_project], p, 1)[p]]
    /\ agents = RemoteAgents
    /\ connections = {agents[i].name : i \in DOMAIN agents}
    /\ queue = <<>>
    /\ active_tasks = Insert(Insert(Insert(EmptyMap,
                          QueueId(ProjOrder[1], 1), "R2"),
                          QueueId(ProjOrder[2], 1), "R1"),
                          QueueId(ProjOrder[3], 1), "R2")
    /\ rx = <<TaskCmd("EnqueueTask", GraphProject, 1),
              TaskCmd("EnqueueTask", GraphProject, 2), Cmd("Start")>>
    /\ is_running = TRUE
    /\ free_rotation = [c \in Capabilities |-> 0]
    /\ sched_pc = "idle"
    /\ stuck_locks = {}
    /\ events = <<>>
    /\ context = ContextPool_new
    /\ now = 0
    /\ chain = NoChain
    /\ executor = SimpleExecutor_new
    /\ suspended = {}
    /\ waited = {}
    /\ ops = MaxGraphOps

SchedulerGraph ==
    \/ RecvStart
    \/ RecvEnqueueTask
    \/ RecvTaskCompleted
    \/ RecvTaskFailed
    \/ PQDispatch

NextGraph ==
    \/ SchedulerGraph
    \/ ConsumeTaskCompleted
    \/ ReportCompleted
    \/ ExecuteDispatched

SpecGraph ==
    /\ InitGraph
    /\ [][NextGraph]_vars
    /\ WF_vars(SchedulerGraph)
    /\ WF_vars(ReportCompleted)

\* Approval calls for stored and for unknown tasks: the ids 1..4 name the
\* three tasks of a Custom project and the four of a Design project, and no
\* task of a project that was not started.
ApproveIds == 1..4

InitApprove == Boot(MixedAgents, MaxApproveOps)

NextApprove ==
    \/ RecvStart
    \/ RecvEnqueueTask
    \/ TickNoCommand
    \/ PQEmpty
    \/ PQDispatch
    \/ \E p \in GenProjIds, ptype \in ModelTypes : StartProject(p, ptype)
    \/ \E p \in GenProjIds, t \in ApproveIds, b \in BOOLEAN : ApproveTask(p, t, b)

SpecApprove == InitApprove /\ [][NextApprove]_vars

\* the number of ids an index of the pool lists
RECURSIVE IndexSize(_)
IndexSize(index) ==
    IF DOMAIN index = {} THEN 0
    ELSE LET k == CHOOSE x \in DOMAIN index : TRUE
         IN Len(index[k]) + IndexSize(Remove(index, k))

\* A pool whose callers choose the ids: add_context with an id that is
\* stored or not, for any owner, beside remove, clear and cleanup, while
\* the clock runs for one second.
InitIndex == Boot(LocalAgents, 0)

NextIndex ==
    \/ \E id \in CtxIds(MaxIndexIds), o \in PoolOwners, ttl \in {None, Some(0)} :
          /\ IndexSize(context.project_contexts) < MaxIndexSize
          /\ IndexSize(context.task_contexts) < MaxIndexSize
          /\ AddContext(MkEntry(id, o[1], o[2], <<>>, ttl, now))
    \/ \E id \in DOMAIN context.entries : RemoveContext(id)
    \/ \E p \in GenProjIds : ClearProjectContext(p)
    \/ CleanupExpired
    \/ now < TicksPerSecond /\ Tick

SpecIndex == InitIndex /\ [][NextIndex]_vars

\* The pipeline runs with remote agents of unequal capacity.
InitUneven == Boot(UnevenAgents, MaxUnevenOps)

SpecUneven == InitUneven /\ [][NextRun]_vars

\* ------------------------------------------------------------------------
\* The event bus as a bounded channel
\* ------------------------------------------------------------------------
\* the loop of process_events is between recv and the end of a handler
Consuming == \E s \in suspended : s.op = "process_events"

bus_frame == <<tasks, agents, connections, queue, active_tasks, rx,
               is_running, free_rotation, sched_pc, stuck_locks, context,
               now, chain, executor, waited, ops>>

\* process_events takes a ProjectCompleted event
process_events_project_completed ==
    /\ ~Consuming
    /\ events # <<>>
    /\ Head(events).ev = "ProjectCompleted"
    /\ "projects" \notin stuck_locks
    /\ projects' = SetProjectStatus(projects, Head(events).p, "Completed")
    /\ events' = Tail(events)
    /\ UNCHANGED <<bus_frame, suspended>>

\* process_events takes a TaskCompleted event and computes all_complete;
\* when it is true the handler has reached event_tx.send(..).await, with
\* the guard of event_rx.write() alive until the end of the if let
process_events_task_completed ==
    /\ ~Consuming
    /\ events # <<>>
    /\ Head(events).ev = "TaskCompleted"
    /\ "tasks" \notin stuck_locks
    /\ events' = Tail(events)
    /\ LET p == Head(events).p IN
       suspended' =
          IF HasProjectTasks(tasks, p) /\ AllCompleted(tasks, p)
          THEN suspended \cup {Suspension("process_events", p, 0, "", {"event_rx"})}
          ELSE suspended
    /\ UNCHANGED <<bus_frame, projects>>

\* the send of ProjectCompleted completes: the channel has room
process_events_sent ==
    \E s \in suspended :
       /\ s.op = "process_events"
       /\ Len(events) < MaxBusEvents
       /\ events' = Append(events, Event("ProjectCompleted", s.p, 0))
       /\ suspended' = suspended \ {s}
       /\ UNCHANGED <<bus_frame, projects>>

\* The engine executing tasks directly while the channel of the event bus
\* has room for MaxBusEvents events (mpsc::channel(1000) in the engine): a
\* call of execute_task gets past its sends when the channel has room.
\* Events whose handler is empty are not represented.
InitBus == Boot(MixedAgents, MaxBusOps)

NextBus ==
    \/ RecvStart
    \/ RecvEnqueueTask
    \/ RecvTaskCompleted
    \/ TickNoCommand
    \/ PQEmpty
    \/ PQDispatch
    \/ StartProject(ProjOrder[1], "Custom")
    \/ \E t \in TaskIds(ProjOrder[1]) :
          /\ Len(events) < MaxBusEvents
          /\ ExecuteTask(ProjOrder[1], t, "success")
    \/ process_events_project_completed
    \/ process_events_task_completed
    \/ process_events_sent

SpecBus == InitBus /\ [][NextBus]_vars

\* ------------------------------------------------------------------------
\* Properties
\* ------------------------------------------------------------------------
\* the tasks of project p, as positions in its list
TaskIdx(p) == DOMAIN tasks[p]

\* every id in the dependencies of task i of project p names a task of p
\* that exists (when strict) and is Completed
DependenciesCompleted(ts, p, i, strict) ==
    \A k \in DOMAIN ts[p][i].dependencies :
        LET d == FindTask(ts, p, ts[p][i].dependencies[k]) IN
        IF d = 0 THEN ~strict ELSE ts[p][d].status = "Completed"

\* C1: every task whose status is Completed has every task its dependencies
\* list names in status Completed.
C1_CompletedTaskHasCompletedDependencies ==
    \A p \in ProjIds : \A i \in TaskIdx(p) :
        tasks[p][i].status = "Completed"
            => DependenciesCompleted(tasks, p, i, FALSE)

\* a step of process_queue that dispatches the head of the queue
Dispatches ==
    /\ sched_pc = "pq"
    /\ queue # <<>>
    /\ WellFormed(Head(queue))
    /\ queue' = Tail(queue)
    /\ Head(queue) \in DOMAIN active_tasks'

\* C2: process_queue dispatches a task only if, in the state it is
\* dispatched from, every id in its dependencies list names a task of the
\* same project whose status is Completed.
C2_DispatchOnlyWithDependenciesCompleted ==
    [][Dispatches =>
          LET p == Head(queue)[1]
              i == FindTask(tasks, p, Head(queue)[2])
          IN i # 0 /\ DependenciesCompleted(tasks, p, i, TRUE)]_vars

C4_AgentLoadWithinMax ==
    \A k \in DOMAIN agents :
        get_agent_load(active_tasks, agents[k].name)
            <= agents[k].max_concurrent_tasks

\* C4, witness: every agent is at its maximum and a ready task waits.
C4_AllAgentsFullTaskWaits ==
    /\ \A k \in DOMAIN agents :
          get_agent_load(active_tasks, agents[k].name)
              = agents[k].max_concurrent_tasks
    /\ \E k \in DOMAIN queue :
          /\ WellFormed(queue[k])
          /\ queue[k] \notin DOMAIN active_tasks
          /\ are_dependencies_met(tasks, queue[k][1], queue[k][2])

\* C5: a project is Completed only if every one of its tasks is Completed.
C5_CompletedProjectHasAllTasksCompleted ==
    \A p \in ProjIds :
        projects[p] = "Completed" => AllCompleted(tasks, p)

\* the status of task t of project p, Absent when there is no such task
StatusOf(p, t) ==
    IF FindTask(tasks, p, t) = 0 THEN Absent
    ELSE tasks[p][FindTask(tasks, p, t)].status

\* C6: a Custom project started by start_project, whose dispatched tasks
\* are all answered with success, eventually has all its tasks Completed
\* and the status Completed.
C6_StartedProjectCompletes ==
    (/\ projects[ProjOrder[1]] = "Running"
     /\ Len(tasks[ProjOrder[1]]) = Len(shred_custom_project))
        ~> (/\ AllCompleted(tasks, ProjOrder[1])
            /\ projects[ProjOrder[1]] = "Completed")

\* two enabled local agents of priority 0 with capability Text and room for
\* one task each
TwoLocalTextAgents ==
    /\ Len(agents) = 2
    /\ \A k \in DOMAIN agents :
          /\ agents[k].enabled /\ agents[k].local
          /\ agents[k].priority = 0
          /\ "Text" \in agents[k].capabilities
          /\ agents[k].max_concurrent_tasks = 1

\* the two dependency-free Text tasks: the first tasks of the first two
\* projects
TwoRootTasks == {QueueId(ProjOrder[1], 1), QueueId(ProjOrder[2], 1)}

\* C7: with two local priority-0 Text agents of capacity 1, each of two
\* dependency-free Text tasks that is in the queue of the Running scheduler
\* is eventually Running.
C7_BothTasksEventuallyRunning ==
    \A q \in TwoRootTasks :
        (/\ TwoLocalTextAgents
         /\ is_running
         /\ \E k \in DOMAIN queue : queue[k] = q)
            ~> (StatusOf(q[1], q[2]) = "Running" /\ q \in DOMAIN active_tasks)

\* C7, witness: both tasks are Running at once, one on each agent.
C7_BothRunningOnTwoAgents ==
    /\ TwoLocalTextAgents
    /\ \A q \in TwoRootTasks :
          q \in DOMAIN active_tasks /\ StatusOf(q[1], q[2]) = "Running"
    /\ \A k \in DOMAIN agents :
          get_agent_load(active_tasks, agents[k].name) = 1

\* C8: with one slot left, once the first task of the join graph is
\* Completed the second one is dispatched next, and the task that depends
\* on both is neither Queued nor dispatched before both are Completed.
C8_SecondRunsNextJoinWaits ==
    /\ (StatusOf(GraphProject, 1) = "Completed")
          ~> (StatusOf(GraphProject, 2) \in {"Running", "Completed"})
    /\ [](\/ StatusOf(GraphProject, 3) = "Blocked"
          \/ /\ StatusOf(GraphProject, 1) = "Completed"
             /\ StatusOf(GraphProject, 2) = "Completed")

\* the scheduler takes a TaskFailed command
TakesTaskFailed ==
    /\ sched_pc = "idle"
    /\ rx # <<>>
    /\ Head(rx).cmd = "TaskFailed"
    /\ rx' = Tail(rx)

\* C9: a TaskFailed command removes the active slot and records the error;
\* below 3 retries the task is retried (retry_count + 1, Queued, appended
\* to the queue), otherwise it is Failed and not enqueued; retry_count
\* never exceeds 3 and a task is Failed only with retry_count 3.
C9_TaskFailedRetriesThreeTimes ==
    [][/\ TakesTaskFailed =>
            LET p == Head(rx).p
                t == Head(rx).t
                i == FindTask(tasks, p, t)
            IN /\ QueueId(p, t) \notin DOMAIN active_tasks'
               /\ i # 0 =>
                    /\ tasks'[p][i].error
                    /\ IF tasks[p][i].retry_count < 3
                       THEN /\ tasks'[p][i].retry_count = tasks[p][i].retry_count + 1
                            /\ tasks'[p][i].status = "Queued"
                            /\ queue' = Append(queue, QueueId(p, t))
                       ELSE /\ tasks'[p][i].retry_count = tasks[p][i].retry_count
                            /\ tasks'[p][i].status = "Failed"
                            /\ queue' = queue
       /\ \A p \in ProjIds : \A i \in DOMAIN tasks'[p] :
            /\ tasks'[p][i].retry_count <= 3
            /\ tasks'[p][i].status = "Failed" => tasks'[p][i].retry_count = 3]_vars

\* C9, witness: a task is Failed after its fourth failure, out of the queue
\* and without a slot.
C9_FailedAfterFourthFailure ==
    \E p \in ProjIds : \E i \in DOMAIN tasks[p] :
        /\ tasks[p][i].status = "Failed"
        /\ tasks[p][i].retry_count = 3
        /\ tasks[p][i].error
        /\ QueueId(p, tasks[p][i].id) \notin DOMAIN active_tasks
        /\ \A k \in DOMAIN queue : queue[k] # QueueId(p, tasks[p][i].id)

\* C10: a task with approval_required is Queued or holds a slot only if it
\* has been in status WaitingApproval before.
C10_ApprovalBeforeQueued ==
    \A p \in ProjIds : \A i \in DOMAIN tasks[p] :
        (/\ tasks[p][i].approval_required
         /\ \/ tasks[p][i].status = "Queued"
            \/ QueueId(p, tasks[p][i].id) \in DOMAIN active_tasks)
            => QueueId(p, tasks[p][i].id) \in waited

\* The statuses the lifecycle treats as final.
TerminalStatuses == {"Completed", "Failed", "Cancelled"}

\* C11: a project that is Completed, Failed or Cancelled keeps that status in
\* every later step (pause, resume, dispatch, TaskCompleted handling and the
\* ProjectCompleted handler included).
C11_TerminalProjectStatusIsFinal ==
    [][\A p \in ProjIds :
          projects[p] \in TerminalStatuses => projects'[p] = projects[p]]_vars

\* C12: once cancel_project(p) has returned (p is Cancelled and its Queued
\* and Running tasks were set to Cancelled), no step sets to Running a task of
\* p that was never dispatched before (started_at is None), even if its id is
\* still in the scheduler queue.
C12_NoDispatchAfterCancel ==
    [][\A p \in ProjIds : \A i \in DOMAIN tasks[p] :
          (/\ projects[p] = "Cancelled"
           /\ "projects" \notin stuck_locks
           /\ ~tasks[p][i].started_at
           /\ tasks[p][i].status # "Running"
           /\ i \in DOMAIN tasks'[p]
           /\ tasks'[p][i].id = tasks[p][i].id)
              => tasks'[p][i].status # "Running"]_vars

\* the entries of project p that the pool stores
EntriesOf(ctx, p) ==
    {id \in DOMAIN ctx.entries : ctx.entries[id].project_id = p}

\* C13: a call of cancel_project(p) that returns, for a project p that
\* exists, leaves p Cancelled, has set to Cancelled exactly the tasks of p
\* that were Queued or Running, and has removed every context entry of p
\* from the pool and its indexes; the other tasks of p, the tasks of other
\* projects and the context entries of other projects are as before.
C13_CancelProjectFrame ==
    [][\A p \in GenProjIds :
          (/\ CancelProject(p)
           /\ "tasks" \notin stuck_locks
           /\ projects[p] # Absent)
          =>
          /\ projects'[p] = "Cancelled"
          /\ DOMAIN tasks'[p] = DOMAIN tasks[p]
          /\ \A i \in DOMAIN tasks[p] :
                tasks'[p][i] =
                    IF tasks[p][i].status \in {"Queued", "Running"}
                    THEN [tasks[p][i] EXCEPT !.status = "Cancelled"]
                    ELSE tasks[p][i]
          /\ \A q \in ProjIds \ {p} : tasks'[q] = tasks[q]
          /\ EntriesOf(context', p) = {}
          /\ p \notin DOMAIN context'.project_contexts
          /\ \A t \in DOMAIN context'.task_contexts :
                \A k \in DOMAIN context'.task_contexts[t] :
                    context'.task_contexts[t][k] \notin EntriesOf(context, p)
          /\ DOMAIN context'.entries = DOMAIN context.entries \ EntriesOf(context, p)
          /\ \A id \in DOMAIN context'.entries :
                context'.entries[id] = context.entries[id]
          /\ \A q \in DOMAIN context.project_contexts \ {p} :
                /\ q \in DOMAIN context'.project_contexts
                /\ context'.project_contexts[q] = context.project_contexts[q]
          /\ \A t \in DOMAIN context.task_contexts :
                /\ t \in DOMAIN context'.task_contexts
                /\ context'.task_contexts[t] =
                      SelectSeq(context.task_contexts[t],
                                LAMBDA id : id \notin EntriesOf(context, p))]_vars

\* C13, witness: a cancelled project with a task that was Running and is
\* Cancelled, a task that is still Completed and one still Blocked, whose
\* output entry is gone from the pool while an entry of another project is
\* still stored.
C13_CancelledOtherContextKept ==
    \E p \in GenProjIds :
        /\ projects[p] = "Cancelled"
        /\ \E i \in DOMAIN tasks[p] :
              tasks[p][i].status = "Cancelled" /\ tasks[p][i].started_at
        /\ \E i \in DOMAIN tasks[p] : tasks[p][i].status = "Completed"
        /\ \E i \in DOMAIN tasks[p] : tasks[p][i].status = "Blocked"
        /\ EntriesOf(context, p) = {}
        /\ p \notin DOMAIN context.project_contexts
        /\ \E q \in GenProjIds \ {p} : EntriesOf(context, q) # {}

\* C14: every call of execute_task whose agent execution does not succeed,
\* by a structured failure response or by a transport or timeout error,
\* sends TaskFailed for that task to the scheduler.
C14_FailedExecutionSendsTaskFailed ==
    [][\A p \in GenProjIds : \A t \in TaskIds(p) :
          \A outcome \in {"failure", "error"} :
             ExecuteTask(p, t, outcome)
                => rx' = Append(rx, TaskCmd("TaskFailed", p, t))]_vars

\* the position of the agent called name in the registry
AgentIdx(name) == CHOOSE k \in DOMAIN agents : agents[k].name = name

\* the agent a call of execute_task for task t of project p runs on
ExecutingAgent(p, t) ==
    Head(get_available_agents(agents, connections,
                              tasks[p][FindTask(tasks, p, t)].capability)).name

\* C15: after each agent execution exactly one of the agent's success_count
\* and failure_count is one higher, failure_count for a structured failure
\* and for a transport error alike, and the agent's status is Unhealthy if
\* failure_count / (success_count + failure_count) > 0.5, else Degraded if
\* that ratio is > 0.1, else Healthy.
C15_HealthCountsAndStatus ==
    [][\A p \in GenProjIds : \A t \in TaskIds(p) :
          \A outcome \in {"success", "failure", "error"} :
             ExecuteTask(p, t, outcome) =>
                LET k == AgentIdx(ExecutingAgent(p, t))
                    h == agents[k].health
                    h2 == agents'[k].health
                    total == h2.success_count + h2.failure_count
                IN /\ IF outcome = "success"
                      THEN /\ h2.success_count = h.success_count + 1
                           /\ h2.failure_count = h.failure_count
                      ELSE /\ h2.success_count = h.success_count
                           /\ h2.failure_count = h.failure_count + 1
                   /\ h2.status = "Unhealthy" <=> 2 * h2.failure_count > total
                   /\ h2.status = "Degraded" <=>
                         /\ 2 * h2.failure_count <= total
                         /\ 10 * h2.failure_count > total
                   /\ h2.status = "Healthy" <=> 10 * h2.failure_count <= total
                   /\ \A j \in DOMAIN agents : j # k => agents'[j] = agents[j]]_vars

\* C15, witness: an agent whose error rate is exactly 0.5 after a failed
\* call and whose status is Degraded.
C15_HalfFailedIsDegraded ==
    \E k \in DOMAIN agents :
        /\ agents[k].health.failure_count = 1
        /\ agents[k].health.success_count = 1
        /\ agents[k].health.status = "Degraded"

\* C16: a failed call that raises the agent's error rate above 0.5 leaves
\* the agent Unhealthy, and as long as an agent is Unhealthy
\* get_available_agents returns it for no capability.
C16_UnhealthyIsNotAvailable ==
    [][/\ \A p \in GenProjIds : \A t \in TaskIds(p) :
            \A outcome \in {"failure", "error"} :
               ExecuteTask(p, t, outcome) =>
                  LET k == AgentIdx(ExecutingAgent(p, t))
                      h2 == agents'[k].health
                  IN 2 * h2.failure_count > h2.success_count + h2.failure_count
                        => h2.status = "Unhealthy"
       /\ \A k \in DOMAIN agents' :
            agents'[k].health.status = "Unhealthy" =>
               \A cap \in Capabilities :
                  LET av == get_available_agents(agents', connections', cap)
                  IN \A j \in DOMAIN av : av[j].name # agents'[k].name]_vars

\* C16, witness: an enabled, connected agent that was Degraded and has
\* become Unhealthy with its second failure.
C16_DegradedTurnedUnhealthy ==
    \E k \in DOMAIN agents :
        /\ agents[k].health.status = "Unhealthy"
        /\ agents[k].health.success_count = 1
        /\ agents[k].health.failure_count = 2
        /\ agents[k].enabled
        /\ agents[k].name \in connections
        /\ agents[k].capabilities # {}

\* C17: process_queue gives a task only to an agent that
\* get_available_agents returns for the task's capability: never to an
\* Unhealthy agent or one without a connection.
C17_DispatchOnlyToAvailableAgent ==
    [][Dispatches =>
          LET p == Head(queue)[1]
              t == Head(queue)[2]
              i == FindTask(tasks, p, t)
          IN /\ i # 0
             /\ LET av == get_available_agents(agents, connections,
                                               tasks[p][i].capability)
                IN \E j \in DOMAIN av :
                      av[j].name = active_tasks'[Head(queue)]]_vars

\* no element occurs twice in the sequence s
NoRepetition(s) == \A i, j \in DOMAIN s : s[i] = s[j] => i = j

\* the ids listed in the references of entry e
RefsOf(e) == {e.references[k] : k \in DOMAIN e.references}

\* C18: get_context_chain ends for every reference graph, with cycles and
\* self-references too: it expands each context id at most once, so it makes
\* no more expansions than there are ids in the graph, and it returns each
\* entry at most once.
C18_ChainExpandsEachIdOnce ==
    /\ NoRepetition(chain.did.expanded)
    /\ NoRepetition([i \in DOMAIN chain.did.result |-> chain.did.result[i].id])
    /\ {chain.did.expanded[i] : i \in DOMAIN chain.did.expanded}
          = chain.did.visited
    /\ Len(chain.did.expanded) <= Cardinality(CtxIds(MaxChainEntries))

\* C18, witness: a chain through two entries that reference each other
\* and through an entry that references itself, asked for with a max_depth
\* above the number of entries, so that only visited ends the walk.
C18_ChainThroughCycle ==
    /\ chain.max_depth > MaxChainEntries
    /\ \E i, j \in DOMAIN chain.did.result :
          /\ i # j
          /\ chain.did.result[j].id \in RefsOf(chain.did.result[i])
          /\ chain.did.result[i].id \in RefsOf(chain.did.result[j])
    /\ \E i \in DOMAIN chain.did.result :
          chain.did.result[i].id \in RefsOf(chain.did.result[i])

\* C19: in the list get_context_chain returns, every entry comes after all
\* returned entries that it references, every entry was reached through
\* fewer than max_depth reference hops, and max_depth = 0 gives the empty
\* list.
C19_ChainOrderedAndBounded ==
    /\ \A i, j \in DOMAIN chain.did.result :
          (i # j /\ chain.did.result[j].id \in RefsOf(chain.did.result[i]))
             => j < i
    /\ \A i \in DOMAIN chain.did.depths : chain.did.depths[i] < chain.max_depth
    /\ chain.max_depth = 0 => chain.did.result = <<>>

\* the ids that occur in the lists of an index
Indexed(index) ==
    UNION {{index[key][k] : k \in DOMAIN index[key]} : key \in DOMAIN index}

\* What a run of cleanup_expired at the present time does to the present
\* pool, given the ids of the entries that count as expired: exactly those
\* leave the entry map and with it both indexes, the others stay as they
\* are, and a second run at the same time changes nothing.
CleanupDoes(expired) ==
    LET after == cleanup_expired(context, now) IN
    /\ \A id \in DOMAIN context.entries :
          id \notin DOMAIN after.entries <=> id \in expired
    /\ \A id \in DOMAIN context.entries :
          context.entries[id].ttl_seconds = None => id \in DOMAIN after.entries
    /\ DOMAIN after.entries \subseteq DOMAIN context.entries
    /\ \A id \in DOMAIN after.entries : after.entries[id] = context.entries[id]
    /\ \A id \in DOMAIN context.entries \ DOMAIN after.entries :
          /\ id \notin Indexed(after.project_contexts)
          /\ id \notin Indexed(after.task_contexts)
    /\ \A id \in DOMAIN after.entries :
          /\ id \in Indexed(after.project_contexts)
          /\ id \in Indexed(after.task_contexts)
    /\ cleanup_expired(after, now) = after

\* now - created_at is greater than ttl_seconds
OlderThanTtl(e) ==
    /\ e.ttl_seconds # None
    /\ now - e.created_at > e.ttl_seconds[1] * TicksPerSecond

\* now - created_at is at least one whole second more than ttl_seconds
WholeSecondOlderThanTtl(e) ==
    /\ e.ttl_seconds # None
    /\ now - e.created_at >= (e.ttl_seconds[1] + 1) * TicksPerSecond

IdsOf(ts) == {ts[i].id : i \in DOMAIN ts}

DepIds(task) == {task.dependencies[k] : k \in DOMAIN task.dependencies}

ChainIds(task) == {task.input_chain[k] : k \in DOMAIN task.input_chain}

\* the ids in ids and the ids their tasks depend on
Upstream(ts, ids) ==
    ids \cup UNION {DepIds(ts[i]) : i \in {j \in DOMAIN ts : ts[j].id \in ids}}

\* the ids in ids, what their tasks depend on and what depends on them
Linked(ts, ids) ==
    Upstream(ts, ids)
       \cup {ts[i].id : i \in {j \in DOMAIN ts : DepIds(ts[j]) \cap ids # {}}}

RECURSIVE UpstreamClosure(_, _, _)
UpstreamClosure(ts, ids, n) ==
    IF n = 0 THEN ids ELSE UpstreamClosure(ts, Upstream(ts, ids), n - 1)

RECURSIVE LinkedClosure(_, _, _)
LinkedClosure(ts, ids, n) ==
    IF n = 0 THEN ids ELSE LinkedClosure(ts, Linked(ts, ids), n - 1)

\* the direct dependencies of a task and all their transitive ancestors
Ancestors(ts, task) == UpstreamClosure(ts, DepIds(task), Len(ts))

Acyclic(ts) == \A i \in DOMAIN ts : ts[i].id \notin Ancestors(ts, ts[i])

Connected(ts) ==
    ts # <<>> => LinkedClosure(ts, {ts[1].id}, Len(ts)) = IdsOf(ts)

\* the tasks no other task depends on
Sinks(ts) == {i \in DOMAIN ts : \A j \in DOMAIN ts : ts[i].id \notin DepIds(ts[j])}

CodingStages == <<"architecture", "module_planning", "core_implementation",
                  "unit_testing", "documentation", "review">>

CodingShape(ts) ==
    /\ Len(ts) = 6
    /\ \A i, j \in DOMAIN ts : i # j => ts[i].id # ts[j].id
    /\ \A i \in DOMAIN ts : ts[i].task_type = CodingStages[i]
    /\ \A i \in DOMAIN ts : DepIds(ts[i]) \subseteq IdsOf(ts)
    /\ Acyclic(ts)
    /\ Connected(ts)
    /\ Sinks(ts) = {6}
    /\ DepIds(ts[6]) = {ts[4].id, ts[5].id}
    /\ Len(ts[6].dependencies) = 2

\* C21: whenever start_project shreds a CodingProject, the task list it
\* stores has exactly the six stages architecture, module_planning,
\* core_implementation, unit_testing, documentation and review, with
\* pairwise distinct ids; the dependency edges are acyclic and connected;
\* review is the only task no other task depends on, and it depends on
\* exactly unit_testing and documentation.
C21_CodingProjectGraph ==
    [][\A p \in GenProjIds :
          StartProject(p, "CodingProject") => CodingShape(tasks'[p])]_vars

\* a CodingProject has been shredded and its review task is stored
C21_CodingProjectShredded ==
    \E p \in GenProjIds : /\ projects[p] # Absent
                           /\ Len(tasks[p]) = 6
                           /\ tasks[p][6].task_type = "review"

\* position of the task with this id in the list, 0 if there is none
PositionOf(ts, id) ==
    IF \E i \in DOMAIN ts : ts[i].id = id
    THEN CHOOSE i \in DOMAIN ts : ts[i].id = id
    ELSE 0

ShredShape(ts) ==
    /\ Len(ts) \in 3..6
    /\ \A i \in DOMAIN ts :
          /\ ts[i].status = IF ts[i].dependencies = <<>> THEN "Queued" ELSE "Blocked"
          /\ \A d \in DepIds(ts[i]) : PositionOf(ts, d) \in 1..(i - 1)

\* C22: for each of the seven project types, every task of the list that
\* start_project gets from the shredder is Queued if its dependencies list
\* is empty and Blocked otherwise, every dependency id names a task that
\* comes earlier in the same list, and the list has between 3 and 6 tasks.
C22_ShredStatusOrderAndSize ==
    [][\A p \in GenProjIds, ptype \in ProjectTypes :
          StartProject(p, ptype) => ShredShape(tasks'[p])]_vars

\* a DataAnalysis project has been shredded: its report waits for two
\* earlier tasks while data_understanding is ready
C22_TwoDependenciesShredded ==
    \E p \in GenProjIds : /\ projects[p] # Absent
                           /\ Len(tasks[p]) = 5
                           /\ tasks[p][5].task_type = "report"
                           /\ Len(tasks[p][5].dependencies) = 2
                           /\ tasks[p][5].status = "Blocked"
                           /\ tasks[p][1].status = "Queued"

ChainHoldsAncestors(ts) ==
    \A i \in DOMAIN ts : Ancestors(ts, ts[i]) \subseteq ChainIds(ts[i])

\* C23: for every project type, the input_chain of every task of the list
\* that start_project gets from the shredder contains every upstream stage
\* of the task: all its direct dependencies and all their transitive
\* ancestors.
C23_InputChainHoldsAllAncestors ==
    [][\A p \in GenProjIds, ptype \in ProjectTypes :
          StartProject(p, ptype) => ChainHoldsAncestors(tasks'[p])]_vars

\* ------------------------------------------------------------------------
\* SimpleExecutor
\* ------------------------------------------------------------------------
AllAttemptsFailed(call) == \A i \in DOMAIN call.attempts : ~call.attempts[i].ok

\* C24: in a call of execute_task with retry_count = 0 and a full context
\* whose provider attempts all fail, there are at most two attempts and no
\* backoff loop; when the call returns, exactly two attempts were made, the
\* first with the sliced context, the second with the full context and a
\* preamble that names the retry attempt, and the result has
\* success = false and needs_user_input = true.
C24_TwoAttemptsThenUserInput ==
    LET call == executor.call IN
    (/\ call.pc # "idle"
     /\ call.given.retry_count = 0
     /\ call.given.full_context
     /\ AllAttemptsFailed(call))
    => /\ call.pc # "backoff"
       /\ Len(call.attempts) <= 2
       /\ call.pc = "done" =>
             /\ Len(call.attempts) = 2
             /\ ~call.attempts[1].sent.full_context
             /\ call.attempts[1].sent.retry_attempt = 0
             /\ call.attempts[2].sent.full_context
             /\ call.attempts[2].sent.retry_attempt = 2
             /\ call.result.kind = "Ok"
             /\ ~call.result.success
             /\ call.result.needs_user_input

\* a call with retry_count = 0 and a full context has returned after both
\* of its attempts failed
C24_BothAttemptsFailed ==
    LET call == executor.call IN
    /\ call.pc = "done"
    /\ call.given.retry_count = 0
    /\ call.given.full_context
    /\ Len(call.attempts) = 2
    /\ AllAttemptsFailed(call)
    /\ call.result = ExhaustedResult

\* C25: whenever execute_task returns a successful result for a task with
\* a tool attached, the tool has run on the provider output and the result
\* returned is the tool's output, whichever attempt succeeded.
C25_SuccessIsToolOutput ==
    LET call == executor.call IN
    (/\ call.pc = "done"
     /\ call.given.tool
     /\ call.result.kind = "Ok"
     /\ call.result.success)
    => /\ call.result.output = "processed"
       /\ call.result.tool_output

\* C26: for each provider, the number of calls the rate limiter has
\* admitted since its permits were last refilled never exceeds
\* requests_per_minute: a call that arrives when the capacity of the
\* window is used up is not admitted before the next refill.
C26_AdmittedWithinRequestsPerMinute ==
    \A pr \in Providers :
        executor.rate_limiters[pr].admitted
           <= executor.rate_limiters[pr].requests_per_minute

\* C27: no engine call is suspended at an await while it holds a lock on
\* the project map or the task map.
C27_NoLockHeldAtAwait == \A s \in suspended : s.held = {}

\* C28: every pass of process_queue ends: the scheduler loop that has
\* entered a pass eventually leaves it, also when the queue holds only
\* entries whose dependencies are unmet or whose task no longer exists.
C28_PassTerminates == (sched_pc = "pq") ~> (sched_pc = "idle")

\* the status of task t of project p in the task map ts
StatusIn(ts, p, t) ==
    IF FindTask(ts, p, t) = 0 THEN Absent ELSE ts[p][FindTask(ts, p, t)].status

\* this step gives a task an active slot or sets a task to Running
GivesSlotOrRuns ==
    \/ \E q \in DOMAIN active_tasks' : q \notin DOMAIN active_tasks
    \/ \E p \in ProjIds : \E i \in DOMAIN tasks'[p] :
          /\ tasks'[p][i].status = "Running"
          /\ StatusIn(tasks, p, tasks'[p][i].id) # "Running"

\* this step takes a command off the channel
Consumes == Len(rx') < Len(rx)

\* the handler of the command c has done its work on the queue, the active
\* map and the task
Processed(c) ==
    CASE c.cmd = "EnqueueTask" ->
           /\ queue' = Append(queue, QueueId(c.p, c.t))
           /\ StatusIn(tasks', c.p, c.t) \in {"Queued", Absent}
      [] c.cmd = "TaskCompleted" ->
           /\ QueueId(c.p, c.t) \notin DOMAIN active_tasks'
           /\ StatusIn(tasks', c.p, c.t) \in {"Completed", Absent}
      [] c.cmd = "TaskFailed" ->
           /\ QueueId(c.p, c.t) \notin DOMAIN active_tasks'
           /\ tasks' = handle_task_failed(tasks, queue, c.p, c.t).tasks
           /\ queue' = handle_task_failed(tasks, queue, c.p, c.t).queue
      [] OTHER -> TRUE

\* C29: a task is given an active slot or set to Running only while the
\* scheduler is Running; a step consumes at most one command, the oldest
\* one, at the start of a tick; and an EnqueueTask, TaskCompleted or
\* TaskFailed command consumed while the scheduler is not Running is
\* processed all the same.
C29_NoDispatchUnlessRunningOneCommandPerTick ==
    [][/\ GivesSlotOrRuns => is_running /\ is_running'
       /\ Consumes => /\ rx' = Tail(rx)
                      /\ sched_pc = "idle"
       /\ (Consumes /\ ~is_running) =>
             /\ Processed(Head(rx))
             /\ ~GivesSlotOrRuns
             /\ Head(rx).cmd \in {"EnqueueTask", "TaskCompleted", "TaskFailed"}
                    => ~is_running']_vars

\* the scheduler is not Running and no pass is under way; a task that was
\* dispatched and has failed once is back in the queue, and no task holds
\* an active slot
C29_FailedTaskRequeuedWhilePaused ==
    /\ ~is_running
    /\ sched_pc = "idle"
    /\ rx = <<>>
    /\ active_tasks = EmptyMap
    /\ \E p \in GenProjIds :
          /\ projects[p] = "Paused"
          /\ \E i \in DOMAIN tasks[p] :
                /\ tasks[p][i].retry_count = 1
                /\ tasks[p][i].started_at
                /\ tasks[p][i].status = "Queued"
                /\ queue = <<QueueId(p, tasks[p][i].id)>>

\* the queue entry q names a task whose dependencies are all Completed and
\* for which find_suitable_agent finds no agent
ReadyWithoutAgent(q) ==
    /\ WellFormed(q)
    /\ are_dependencies_met(tasks, q[1], q[2])
    /\ \A r \in find_suitable_agent(tasks, agents, active_tasks,
                                     free_rotation, q[1], q[2]) :
          r.agent = NoAgent

\* C30: when the pass takes from the head of the queue a task whose
\* dependencies are all Completed and no agent can be selected for it, the
\* task goes to the tail of the queue and the pass ends there; the active
\* map and the tasks stay as they are.
C30_NoAgentRequeuesAndStops ==
    [][(/\ sched_pc = "pq"
        /\ queue # <<>>
        /\ ReadyWithoutAgent(Head(queue))
        /\ (queue' # queue \/ sched_pc' # sched_pc))
       => /\ queue' = Append(Tail(queue), Head(queue))
          /\ sched_pc' = "idle"
          /\ active_tasks' = active_tasks
          /\ tasks' = tasks]_vars

\* a pass of the Running scheduler has ended below the ceiling with entries
\* left in the queue, the last of them ready and without an agent
C30_PassStoppedForLackOfAgent ==
    /\ is_running
    /\ sched_pc = "idle"
    /\ rx = <<>>
    /\ Cardinality(DOMAIN active_tasks) < MaxConcurrentTasks
    /\ Len(queue) >= 2
    /\ ReadyWithoutAgent(queue[Len(queue)])

\* C31: approve_task(p, t, true) sets the task's status to Queued, clears
\* approval_required and appends exactly one EnqueueTask(p, t) to the
\* scheduler's channel; approve_task(p, t, false) sets the status to
\* Cancelled and sends nothing; for a project or a task that is not stored
\* the task map and the channel stay as they were.  No other task changes.
OnlyTaskChanged(p, i) ==
    /\ \A q \in ProjIds : q # p => tasks'[q] = tasks[q]
    /\ Len(tasks'[p]) = Len(tasks[p])
    /\ \A j \in DOMAIN tasks[p] : j # i => tasks'[p][j] = tasks[p][j]

C31_ApproveTaskQueuesOrCancels ==
    [][\A p \in GenProjIds, t \in ApproveIds, b \in BOOLEAN :
          ApproveTask(p, t, b) =>
             LET i == FindTask(tasks, p, t) IN
             IF i = 0
             THEN tasks' = tasks /\ rx' = rx
             ELSE /\ OnlyTaskChanged(p, i)
                  /\ IF b
                     THEN /\ tasks'[p][i] =
                                [tasks[p][i] EXCEPT !.status = "Queued",
                                                    !.approval_required = FALSE]
                          /\ rx' = Append(rx, TaskCmd("EnqueueTask", p, t))
                     ELSE /\ tasks'[p][i] =
                                [tasks[p][i] EXCEPT !.status = "Cancelled"]
                          /\ rx' = rx]_vars

\* one task was approved (it needs no approval any more and its second
\* EnqueueTask is on the channel), another task of the project was rejected,
\* and the calls are used up while a project was never started
C31_ApprovedRejectedAndUnknown ==
    \E p \in GenProjIds :
       /\ projects[p] # Absent
       /\ \E q \in GenProjIds : projects[q] = Absent
       /\ ops = 0
       /\ \E i, j \in DOMAIN tasks[p] :
             /\ tasks[p][i].status = "Queued"
             /\ ~tasks[p][i].approval_required
             /\ rx # <<>>
             /\ rx[Len(rx)] = TaskCmd("EnqueueTask", p, tasks[p][i].id)
             /\ Len(SelectSeq(rx, LAMBDA c : c = rx[Len(rx)])) = 2
             /\ tasks[p][j].status = "Cancelled"

\* C32: in a call of execute_task without a full context whose provider
\* attempts all fail, no more attempts are made than the first one and
\* max_retries retries.
C32_AttemptsWithinMaxRetries ==
    LET call == executor.call IN
    (~call.given.full_context /\ AllAttemptsFailed(call))
        => Len(call.attempts) <= 1 + max_retries

\* the ids of a list, each once
NoDuplicates(s) == \A i, j \in DOMAIN s : s[i] = s[j] => i = j

\* C33: after any sequence of add_context (also with a stored id),
\* remove_context, clear_project_context and cleanup_expired, each index
\* lists only ids of stored entries, each id once and under the entry's own
\* project_id (task_id), and every stored entry is listed; so
\* get_project_context(p) and get_task_context(t) return only entries of
\* project p (task t) and no entry twice.
C33_IndexesListStoredEntriesOnce ==
    /\ \A p \in DOMAIN context.project_contexts :
          /\ NoDuplicates(context.project_contexts[p])
          /\ \A i \in DOMAIN context.project_contexts[p] :
                LET id == context.project_contexts[p][i] IN
                /\ id \in DOMAIN context.entries
                /\ context.entries[id].project_id = p
    /\ \A t \in DOMAIN context.task_contexts :
          /\ NoDuplicates(context.task_contexts[t])
          /\ \A i \in DOMAIN context.task_contexts[t] :
                LET id == context.task_contexts[t][i] IN
                /\ id \in DOMAIN context.entries
                /\ context.entries[id].task_id = t
    /\ \A id \in DOMAIN context.entries :
          /\ id \in Indexed(context.project_contexts)
          /\ id \in Indexed(context.task_contexts)
    /\ \A p \in GenProjIds :
          LET got == get_project_context(context, p) IN
          /\ NoDuplicates(got)
          /\ \A i \in DOMAIN got : got[i].project_id = p
    /\ \A o \in PoolOwners :
          LET got == get_task_context(context, o[2]) IN
          /\ NoDuplicates(got)
          /\ \A i \in DOMAIN got : got[i].task_id = o[2]

\* C34: handling a TaskCompleted command always finishes: the scheduler
\* loop is never left waiting for the lock of the task map that its own
\* handler still holds.
C34_TaskCompletedHandlerFinishes ==
    /\ sched_pc # "deadlock"
    /\ "tasks" \notin stuck_locks

\* C35: no scheduler step changes the status of a task that is Completed,
\* and none gives such a task an active slot.
C35_CompletedTaskStaysCompleted ==
    [][SchedulerStep =>
          \A p \in ProjIds : \A i \in DOMAIN tasks[p] :
             tasks[p][i].status = "Completed" =>
                /\ StatusIn(tasks', p, tasks[p][i].id) = "Completed"
                /\ QueueId(p, tasks[p][i].id) \in DOMAIN active_tasks'
                      => QueueId(p, tasks[p][i].id) \in DOMAIN active_tasks]_vars

\* C36: every entry of the active-task map belongs to a task whose status
\* is Running, unless the command that releases the slot (TaskCompleted or
\* TaskFailed for that task) is still on the scheduler's channel: a task
\* that has left Running does not keep its slot.
C36_ActiveSlotOnlyForRunningTask ==
    \A q \in DOMAIN active_tasks :
        ~Reported(q) => StatusOf(q[1], q[2]) = "Running"

\* an enabled agent with the capability has fewer active tasks than its
\* max_concurrent_tasks
SpareCapacity(capability) ==
    \E k \in DOMAIN agents :
       /\ agents[k].enabled
       /\ capability \in agents[k].capabilities
       /\ get_agent_load(active_tasks, agents[k].name)
             < agents[k].max_concurrent_tasks

\* C37: for every stored task, if some enabled agent with the task's
\* capability has spare capacity, find_suitable_agent returns an agent.
C37_AgentFoundWhenCapacityExists ==
    \A p \in ProjIds : \A i \in DOMAIN tasks[p] :
        SpareCapacity(tasks[p][i].capability) =>
            \A o \in find_suitable_agent(tasks, agents, active_tasks,
                                         free_rotation, p, tasks[p][i].id) :
                o.agent # NoAgent

\* the stored entries that lie at most n reference hops from the stored
\* entries ids
RECURSIVE WithinHops(_, _, _)
WithinHops(entries, ids, n) ==
    IF n = 0 THEN ids
    ELSE WithinHops(entries,
                    ids \cup {r \in DOMAIN entries :
                                 \E id \in ids : r \in RefsOf(entries[id])},
                    n - 1)

\* the stored entries that lie fewer than max_depth reference hops from the
\* entries of task t
ReachableBelow(ctx, t, max_depth) ==
    IF max_depth = 0 \/ t \notin DOMAIN ctx.task_contexts THEN {}
    ELSE WithinHops(ctx.entries,
                    {id \in DOMAIN ctx.entries :
                        \E k \in DOMAIN ctx.task_contexts[t] :
                           ctx.task_contexts[t][k] = id},
                    max_depth - 1)

\* the ids of the entries get_context_chain returns
ChainIdsOf(ctx, t, max_depth) ==
    LET got == get_context_chain(ctx, t, max_depth).result
    IN {got[i].id : i \in DOMAIN got}

\* C38: get_context_chain(t, max_depth) returns every stored entry that lies
\* fewer than max_depth reference hops from the entries of task t, and it
\* returns the same set of entries when an entry lists its references in
\* the reverse order.
C38_ChainReturnsAllWithinDepth ==
    /\ ReachableBelow(context, chain.task_id, chain.max_depth)
          \subseteq {chain.did.result[i].id : i \in DOMAIN chain.did.result}
    /\ \A id \in DOMAIN context.entries :
          ChainIdsOf([context EXCEPT !.entries[id].references = Reverse(@)],
                     chain.task_id, chain.max_depth)
             = {chain.did.result[i].id : i \in DOMAIN chain.did.result}

\* the entries of the pool that execute_task stored for task t
OutputsOf(t) == {id \in DOMAIN context.entries : context.entries[id].task_id = t}

\* C39: when execute_task has stored an output entry for a task and for
\* every task of its input_chain, get_context_chain for the task (with a
\* max_depth above the number of entries) returns, for each upstream task,
\* an output entry of that task ahead of the task's own output entry.
C39_ChainHoldsUpstreamOutputs ==
    \A i \in DOMAIN tasks[ProjOrder[1]] :
        LET task == tasks[ProjOrder[1]][i]
            upstream == {task.input_chain[k] : k \in DOMAIN task.input_chain}
            got == get_context_chain(context, task.id,
                       Cardinality(DOMAIN context.entries) + 1).result
        IN (/\ upstream # {}
            /\ OutputsOf(task.id) # {}
            /\ \A u \in upstream : OutputsOf(u) # {})
           => \A u \in upstream :
                 \E j, k \in DOMAIN got :
                    /\ j < k
                    /\ got[j].task_id = u
                    /\ got[k].task_id = task.id

\* C40: the event consumer never waits for room on a channel that only it
\* can make room on: it is never at the send of ProjectCompleted while the
\* channel of the event bus is full.
C40_ConsumerNeverWaitsOnFullBus ==
    ~(Consuming /\ Len(events) = MaxBusEvents)

====
